---- MODULE Spec2Model ----
(***************************************************************************)
(* A model of picatz/xcel: the reflection-driven bridge that exposes Go     *)
(* struct values to CEL (object.go, type_provider.go, type_adapter.go).     *)
(*                                                                         *)
(* Go strings that the code inspects character by character (field names,   *)
(* dotted paths) are sequences of one-character strings.  Go values are     *)
(* records tagged by the field that carries them, reflect.Value is a record *)
(* of a type, a value and an address.  Pointers are addresses into `heap`.  *)
(***************************************************************************)
EXTENDS Integers, Sequences, FiniteSets, TLC

VARIABLES
    heap,              \* the native Go objects the program holds: address -> [t, v]
    ta,                \* TypeAdapter: reflect.Type -> conversion function
    tp,                \* TypeProvider: [Idents, Types, Structs, StructFieldTypes]
    last,              \* the last call made and what it returned
    firstReg,          \* history: type name -> the descriptor set of its first registration
    nops               \* number of calls made so far

vars == <<heap, ta, tp, last, firstReg, nops>>

\* The number of registry or heap changing calls one behaviour makes.
MaxOps == 2

(***************************************************************************)
(* Characters and strings                                                   *)
(***************************************************************************)
UpperChars == <<"A","B","C","D","E","F","G","H","I","J","K","L","M",
                "N","O","P","Q","R","S","T","U","V","W","X","Y","Z">>
LowerChars == <<"a","b","c","d","e","f","g","h","i","j","k","l","m",
                "n","o","p","q","r","s","t","u","v","w","x","y","z">>

Range(s) == {s[i] : i \in DOMAIN s}

\* unicode.IsUpper / unicode.IsLower / unicode.ToLower of an ASCII character;
\* as runes, the bytes 0x89 and 0xA9 are letters of neither case.
IsUpper(c) == c \in Range(UpperChars)
IsLower(c) == c \in Range(LowerChars)
ToLower(c) ==
    IF IsUpper(c)
    THEN LowerChars[CHOOSE i \in DOMAIN UpperChars : UpperChars[i] = c]
    ELSE c

\* A faulty toSnakeCase: it only lower-cases and never writes a '_'.
RECURSIVE SnakeNoUnderscore(_)
SnakeNoUnderscore(s) ==
    IF s = <<>> THEN <<>> ELSE <<ToLower(Head(s))>> \o SnakeNoUnderscore(Tail(s))

\* A Go string is its bytes.  The bytes of the ASCII characters are written
\* as the characters; "0xC3", "0x89" and "0xA9" are the bytes of the two-byte
\* letters U+00C9 (upper case) and U+00E9 (lower case).
UpperE == <<"0xC3", "0x89">>
LowerE == <<"0xC3", "0xA9">>

\* for i, r := range s: the rune that starts at byte i, as its bytes.
RuneAt(s, i) == IF s[i] = "0xC3" /\ i < Len(s) THEN SubSeq(s, i, i + 1) ELSE <<s[i]>>

\* unicode.IsUpper / unicode.ToLower on a rune
IsUpperRune(r) == r = UpperE \/ (Len(r) = 1 /\ IsUpper(r[1]))
ToLowerRune(r) == IF r = UpperE THEN LowerE ELSE <<ToLower(r[1])>>

\* Whether byte i of s is the second byte of a two-byte rune; the range loop
\* does not stop there.
InsideRune(s, i) == i > 1 /\ s[i-1] = "0xC3"

\* The body of the loop of toSnakeCase for the rune r that starts at byte i:
\* prev and next are the bytes s[i-1] and s[i+1] taken as runes.
SnakeAt(s, i, r) ==
    IF IsUpperRune(r)
    THEN (IF i > 1
             /\ s[i-1] # "_"
             /\ (IsLower(s[i-1]) \/ (i + 1 <= Len(s) /\ IsLower(s[i+1])))
          THEN <<"_">> ELSE <<>>) \o ToLowerRune(r)
    ELSE r

\* The loop of toSnakeCase from byte i on.
RECURSIVE SnakeFrom(_, _)
SnakeFrom(s, i) ==
    IF i > Len(s) THEN <<>>
    ELSE (IF InsideRune(s, i) THEN <<>> ELSE SnakeAt(s, i, RuneAt(s, i)))
         \o SnakeFrom(s, i + 1)

\* toSnakeCase converts an exported Go field name to snake_case.
toSnakeCase(s) == SnakeFrom(s, 1)

\* strings.Split(s, "."): the pieces of s between the dots.
RECURSIVE SplitFrom(_, _, _)
SplitFrom(s, i, cur) ==
    IF i > Len(s) THEN <<cur>>
    ELSE IF s[i] = "." THEN <<cur>> \o SplitFrom(s, i + 1, <<>>)
    ELSE SplitFrom(s, i + 1, Append(cur, s[i]))

SplitDots(s) == SplitFrom(s, 1, <<>>)

(***************************************************************************)
(* Go types (reflect.Type)                                                  *)
(***************************************************************************)
\* The package of the struct types below (PkgPath of their reflect.Type).
Pkg == "pkg"

StringT  == [k |-> "string"]
IntT     == [k |-> "int"]
Int64T   == [k |-> "int64"]
Uint64T  == [k |-> "uint64"]
Uint8T   == [k |-> "uint8"]
Float64T == [k |-> "float64"]
BoolT    == [k |-> "bool"]
FuncT    == [k |-> "func"]
PtrT(e)   == [k |-> "ptr", elem |-> e]
SliceT(e) == [k |-> "slice", elem |-> e]
StructT(n) == [k |-> "struct", pkg |-> Pkg, name |-> n]
IfaceT(n)  == [k |-> "interface", pkg |-> Pkg, name |-> n]

\* goTimeType = reflect.TypeOf(time.Time{})
goTimeType == [k |-> "struct", pkg |-> "time", name |-> "Time"]

\* A struct field as reflect.StructField describes it.
SF(name, type, anonymous) == [Name |-> name, Type |-> type, Anonymous |-> anonymous]

\* reflect.StructField.IsExported: the name starts with an upper-case letter.
IsExported(ft) == IsUpper(ft.Name[1])

\* Field names of the struct types of the model.
nNested      == <<"N","e","s","t","e","d">>
nNamedNested == <<"N","a","m","e","d","N","e","s","t","e","d">>
nToto        == <<"T","o","t","o">>
nLevel       == <<"L","e","v","e","l">>
nName        == <<"N","a","m","e">>
nParent      == <<"P","a","r","e","n","t">>
nFn          == <<"F","n">>
nCreatedAt   == <<"C","r","e","a","t","e","d","A","t">>
nUpdatedAt   == <<"U","p","d","a","t","e","d","A","t">>
nSecret      == <<"s","e","c","r","e","t">>
nAge         == <<"A","g","e">>
nCount       == <<"C","o","u","n","t">>
nScore       == <<"S","c","o","r","e">>
nActive      == <<"A","c","t","i","v","e">>
nBlob        == <<"B","l","o","b">>
nTags        == <<"T","a","g","s">>
nFooBar      == <<"F","o","o","B","a","r">>
nFoo_Bar     == <<"F","o","o","_","B","a","r">>
nA           == <<"A">>
nB           == <<"B">>
nID          == <<"I","D">>
nExtra       == <<"E","x","t","r","a">>
nX           == <<"X">>
nNamed       == <<"N","a","m","e","d">>
nEvent       == <<"E","v","e","n","t">>
nTrace       == <<"T","r","a","c","e">>
nCommon      == <<"C","o","m","m","o","n">>
nPid         == <<"P","i","d">>
nRuntime     == <<"R","u","n","t","i","m","e">>
nContainerID == <<"C","o","n","t","a","i","n","e","r","I","D">>
nNode        == <<"N","o","d","e">>
nLeft        == <<"L","e","f","t">>
nRight       == <<"R","i","g","h","t">>
nInner       == <<"I","n","n","e","r">>

\* The struct declarations the model runs the library on.  Example, Nested and
\* AllPrimitives and the Enriched/Exec/Trace/Common/Runtime chain follow the
\* declarations of the test file; Dup, TwoEmb, Shadow, OwnFirst and PtrEmb add
\* colliding names and an embedded pointer; Node embeds a pointer to its own
\* type, Left and Right point to each other; Outer embeds Inner, which has a
\* func field.
StructFields(t) ==
    CASE t = StructT("Nested") ->
            << SF(nToto, StringT, FALSE), SF(nLevel, Int64T, FALSE) >>
      [] t = StructT("Example") ->
            << SF(nNested, StructT("Nested"), TRUE),
               SF(nNamedNested, StructT("Nested"), FALSE),
               SF(nName, StringT, FALSE),
               SF(nParent, PtrT(StructT("Example")), FALSE),
               SF(nFn, FuncT, FALSE),
               SF(nCreatedAt, goTimeType, FALSE),
               SF(nUpdatedAt, PtrT(goTimeType), FALSE),
               SF(nSecret, IntT, FALSE) >>
      [] t = StructT("AllPrimitives") ->
            << SF(nName, StringT, FALSE), SF(nAge, IntT, FALSE),
               SF(nCount, Uint64T, FALSE), SF(nScore, Float64T, FALSE),
               SF(nActive, BoolT, FALSE), SF(nBlob, SliceT(Uint8T), FALSE),
               SF(nTags, SliceT(StringT), FALSE) >>
      [] t = StructT("Dup") ->
            << SF(nFooBar, StringT, FALSE), SF(nFoo_Bar, StringT, FALSE) >>
      [] t = StructT("A") -> << SF(nID, StringT, FALSE) >>
      [] t = StructT("B") -> << SF(nID, StringT, FALSE), SF(nExtra, IntT, FALSE) >>
      [] t = StructT("TwoEmb") ->
            << SF(nA, StructT("A"), TRUE), SF(nB, StructT("B"), TRUE) >>
      [] t = StructT("Shadow") ->
            << SF(nA, StructT("A"), TRUE), SF(nID, StringT, FALSE) >>
      [] t = StructT("OwnFirst") ->
            << SF(nID, StringT, FALSE), SF(nA, StructT("A"), TRUE),
               SF(nNamed, StructT("B"), FALSE) >>
      [] t = StructT("PtrEmb") ->
            << SF(nNested, PtrT(StructT("Nested")), TRUE), SF(nX, IntT, FALSE) >>
      [] t = StructT("Enriched") -> << SF(nEvent, IfaceT("K8sEvent"), FALSE) >>
      [] t = StructT("Exec") -> << SF(nTrace, StructT("Trace"), TRUE) >>
      [] t = StructT("Trace") ->
            << SF(nCommon, StructT("Common"), TRUE), SF(nPid, Uint64T, FALSE) >>
      [] t = StructT("Common") -> << SF(nRuntime, StructT("Runtime"), FALSE) >>
      [] t = StructT("Runtime") -> << SF(nContainerID, StringT, FALSE) >>
      [] t = StructT("Node") ->
            << SF(nNode, PtrT(StructT("Node")), TRUE), SF(nX, IntT, FALSE) >>
      [] t = StructT("Left") ->
            << SF(nRight, PtrT(StructT("Right")), FALSE), SF(nX, IntT, FALSE) >>
      [] t = StructT("Right") -> << SF(nLeft, PtrT(StructT("Left")), FALSE) >>
      [] t = StructT("Inner") -> << SF(nFn, FuncT, FALSE), SF(nID, StringT, FALSE) >>
      [] t = StructT("Outer") -> << SF(nInner, StructT("Inner"), TRUE) >>
      [] OTHER -> << >>

\* reflect.Type.NumField, reflect.Type.Field(i)
NumField(t) == Len(StructFields(t))

\* The index in fields of the field called name, 0 when there is none.
IndexOfName(fields, name) ==
    IF \E i \in DOMAIN fields : fields[i].Name = name
    THEN CHOOSE i \in DOMAIN fields : fields[i].Name = name
    ELSE 0

\* The index of the directly declared field called name, 0 when there is none.
FieldIndex(t, name) == IndexOfName(StructFields(t), name)

\* reflect.Type.String() of a type, as a sequence of its pieces.
RECURSIVE TypeString(_)
TypeString(t) ==
    CASE t.k = "ptr" -> <<"*">> \o TypeString(t.elem)
      [] t.k = "slice" -> <<"[]">> \o TypeString(t.elem)
      [] t.k \in {"struct", "interface"} -> <<t.pkg, ".", t.name>>
      [] t.k = "wrapper" -> <<"*xcel.Object[">> \o TypeString(t.T) \o <<"]">>
      [] t.k = "dyn" -> <<"*xcel.dynObject">>
      [] OTHER -> <<t.k>>

RECURSIVE StripPtr(_)
StripPtr(t) == IF t.k = "ptr" THEN StripPtr(t.elem) ELSE t

\* t with one pointer removed (if underlying.Kind() == reflect.Ptr { underlying = underlying.Elem() })
ElemIfPtr(t) == IF t.k = "ptr" THEN t.elem ELSE t

\* typeNameOf returns the Go type name for a given reflect.Type.
typeNameOf(t) ==
    LET e == StripPtr(t)
    IN IF e.k \in {"struct", "interface"} /\ e.pkg # ""
       THEN <<e.pkg, ".", e.name>>
       ELSE TypeString(e)

\* wrapperTypeName[T] = fmt.Sprintf("%T", (*Object[T])(nil))
wrapperTypeName(T) == <<"*xcel.Object[">> \o TypeString(T) \o <<"]">>

\* A faulty wrapperTypeNameFor: it names the struct without the pointer.
WrapperTypeNameForNoStar(rt) == <<"*xcel.Object[">> \o typeNameOf(rt) \o <<"]">>

\* wrapperTypeNameFor: "*xcel.Object[*" + typeNameOf(rt) + "]"
wrapperTypeNameFor(rt) == <<"*xcel.Object[", "*">> \o typeNameOf(StripPtr(rt)) \o <<"]">>

\* The reflect.Type of the wrapper *Object[T] and of *dynObject
WrapperT(T) == [k |-> "wrapper", T |-> T]
DynT == [k |-> "dyn"]

(***************************************************************************)
(* CEL types (types.Type)                                                   *)
(***************************************************************************)
CelStringType    == [kind |-> "string"]
CelIntType       == [kind |-> "int"]
CelUintType      == [kind |-> "uint"]
CelDoubleType    == [kind |-> "double"]
CelBoolType      == [kind |-> "bool"]
CelBytesType     == [kind |-> "bytes"]
CelTimestampType == [kind |-> "timestamp"]
CelListType(e)   == [kind |-> "list", elem |-> e]
\* The nil *types.Type
NoType == [kind |-> "nil"]
\* cel.ObjectType(name, traits.ReceiverType)
ObjectType(name) == [kind |-> "object", name |-> name]
\* types.Type.TypeName
TypeName(t) == IF t.kind = "object" THEN t.name ELSE <<t.kind>>

\* celTypeForField returns the CEL type of the declared Go field type.
celTypeForField(sf) ==
    LET t == StripPtr(sf.Type)
    IN IF t = goTimeType THEN CelTimestampType
       ELSE CASE t.k = "string" -> CelStringType
              [] t.k \in {"int", "int32", "int64"} -> CelIntType
              [] t.k \in {"uint", "uint32", "uint64", "uintptr"} -> CelUintType
              [] t.k \in {"float32", "float64"} -> CelDoubleType
              [] t.k = "bool" -> CelBoolType
              [] t.k = "slice" /\ t.elem.k = "uint8" -> CelBytesType
              [] t.k = "slice" /\ t.elem.k = "string" -> CelListType(CelStringType)
              [] OTHER -> ObjectType(typeNameOf(sf.Type))

(***************************************************************************)
(* Go values and the heap                                                   *)
(*   string [str], integers [int], floats [flt], bool [bool],               *)
(*   slices [slice, isnil], func [fn] (a name, or "nil"),                   *)
(*   time.Time [sec, loc], struct [fields: field name -> value],            *)
(*   pointer [ptr: "nil" | "heap" with base and path | "fresh" with t, v],  *)
(*   interface [iface: "nil" | "val" with its dynamic t and v].             *)
(***************************************************************************)
Str(s)   == [str |-> s]
IntV(i)  == [int |-> i]
FltV(f)  == [flt |-> f]
BoolV(b) == [bool |-> b]
SliceV(q) == [slice |-> q, isnil |-> FALSE]
NilSlice == [slice |-> <<>>, isnil |-> TRUE]
FnV(n)   == [fn |-> n]
NilFunc  == [fn |-> "nil"]
StructV(f) == [fields |-> f]

\* time.Time: the instant in seconds since January 1, year 1, 00:00:00 UTC, and
\* the location pointer (loc): "nil" stands for UTC, "Local" for &localLoc.
TimeV(sec, loc) == [sec |-> sec, loc |-> loc]
\* time.Time{}: every field zero.
ZeroTime == TimeV(0, "nil")

NilPtr == [ptr |-> "nil"]
\* The address of the part of heap object base that path leads to.
HeapPtr(base, path) == [ptr |-> "heap", base |-> base, path |-> path]
\* reflect.New(t) followed by Set(v): a pointer to a copy nothing else refers to.
FreshPtr(t, v) == [ptr |-> "fresh", t |-> t, v |-> v]

NilIface == [iface |-> "nil"]
IfaceV(t, v) == [iface |-> "val", t |-> t, v |-> v]

\* The zero value of a type (reflect.New(t).Elem()).
RECURSIVE ZeroOf(_)
ZeroOf(t) ==
    CASE t.k = "string" -> Str("")
      [] t.k \in {"int", "int64", "uint64", "uint8"} -> IntV(0)
      [] t.k = "float64" -> FltV(0)
      [] t.k = "bool" -> BoolV(FALSE)
      [] t.k = "slice" -> NilSlice
      [] t.k = "func" -> NilFunc
      [] t.k = "ptr" -> NilPtr
      [] t.k = "interface" -> NilIface
      [] t = goTimeType -> ZeroTime
      [] OTHER -> StructV([n \in {StructFields(t)[i].Name : i \in 1..NumField(t)} |->
                             ZeroOf(StructFields(t)[FieldIndex(t, n)].Type)])

\* The part of struct value v that the field names of path lead to.
RECURSIVE ValueAt(_, _)
ValueAt(v, path) ==
    IF path = <<>> THEN v ELSE ValueAt(v.fields[Head(path)], Tail(path))

\* The type of that part.
RECURSIVE TypeAt(_, _)
TypeAt(t, path) ==
    IF path = <<>> THEN t
    ELSE TypeAt(StructFields(t)[FieldIndex(t, Head(path))].Type, Tail(path))

\* v with the part at path replaced by x.
RECURSIVE WithValueAt(_, _, _)
WithValueAt(v, path, x) ==
    IF path = <<>> THEN x
    ELSE StructV([v.fields EXCEPT ![Head(path)] = WithValueAt(@, Tail(path), x)])

(***************************************************************************)
(* reflect.Value: [valid, t, v, canAddr, loc]; loc is the pointer to the    *)
(* value when it is addressable.                                            *)
(***************************************************************************)
InvalidRV == [valid |-> FALSE]
RV(t, v, canAddr, loc) == [valid |-> TRUE, t |-> t, v |-> v, canAddr |-> canAddr, loc |-> loc]

\* An `any`: the dynamic type and value it holds; NilAny is the nil interface.
NilAny == [any |-> "nil"]
AnyOf(t, v) == [any |-> "val", t |-> t, v |-> v]

\* reflect.ValueOf
ValueOf(x) == IF x = NilAny THEN InvalidRV ELSE RV(x.t, x.v, FALSE, NilPtr)

\* reflect.Value.Kind
Kind(rv) == IF rv.valid THEN rv.t.k ELSE "invalid"

\* reflect.Value.IsNil for pointers, interfaces, slices and funcs
IsNil(rv) ==
    CASE rv.t.k = "ptr" -> rv.v = NilPtr
      [] rv.t.k = "interface" -> rv.v = NilIface
      [] rv.t.k = "slice" -> rv.v = NilSlice
      [] rv.t.k = "func" -> rv.v = NilFunc
      [] OTHER -> FALSE

\* reflect.Value.IsZero: the value equals the zero value of its type.
IsZero(rv) == rv.v = ZeroOf(rv.t)

\* reflect.Value.Elem in heap h: the pointee of a pointer (addressable), the
\* dynamic value of an interface (not addressable), the zero Value for nil.
Elem(h, rv) ==
    CASE rv.t.k = "ptr" /\ rv.v.ptr = "heap" ->
            RV(rv.t.elem, ValueAt(h[rv.v.base].v, rv.v.path), TRUE, rv.v)
      [] rv.t.k = "ptr" /\ rv.v.ptr = "fresh" -> RV(rv.t.elem, rv.v.v, TRUE, rv.v)
      [] rv.t.k = "ptr" /\ rv.v.ptr = "inner" ->
            RV(rv.t.elem, ValueAt(rv.v.of.v, rv.v.path), TRUE, rv.v)
      [] rv.t.k = "interface" /\ rv.v.iface = "val" -> RV(rv.v.t, rv.v.v, FALSE, NilPtr)
      [] OTHER -> InvalidRV

\* if v.Kind() == reflect.Ptr { v = v.Elem() }
Indirect(h, v) == IF Kind(v) = "ptr" THEN Elem(h, v) ELSE v

\* reflect.Value.Field(i): field i of a struct; it is addressable when the
\* struct is.  A field of a fresh copy is addressed inside that copy.
FieldAt(rv, i) ==
    LET ft == StructFields(rv.t)[i]
        loc == IF ~rv.canAddr THEN NilPtr
               ELSE IF rv.loc.ptr = "heap"
                    THEN HeapPtr(rv.loc.base, Append(rv.loc.path, ft.Name))
                    ELSE IF rv.loc.ptr = "fresh"
                    THEN [ptr |-> "inner", of |-> rv.loc, path |-> <<ft.Name>>]
                    ELSE [ptr |-> "inner", of |-> rv.loc.of,
                          path |-> Append(rv.loc.path, ft.Name)]
    IN RV(ft.Type, rv.v.fields[ft.Name], rv.canAddr, loc)

\* What a reflect call that panics leaves in place of a Value.
PanicRV == [valid |-> FALSE, panic |-> "reflect: indirection through nil pointer to embedded struct"]

\* How deep reflect.Type.FieldByName is followed through embedded structs.
MaxEmbedDepth == 3

RECURSIVE EmbeddedPaths(_, _, _)

\* The fields called name at depth d - 1 of the struct that field ft embeds.
EmbeddedIn(ft, under, name, d) ==
    IF ft.Anonymous /\ under.k = "struct"
    THEN {<<ft.Name>> \o q : q \in EmbeddedPaths(under, name, d - 1)}
    ELSE {}

\* The fields called name that embedding makes selectable at depth d of t, as
\* the names of the fields on the way: anonymous fields of struct type, or of
\* pointer to struct type, are looked into.
EmbeddedPaths(t, name, d) ==
    IF d = 0 THEN {<<ft.Name>> : ft \in {x \in Range(StructFields(t)) : x.Name = name}}
    ELSE UNION {EmbeddedIn(ft, ElemIfPtr(ft.Type), name, d) : ft \in Range(StructFields(t))}

\* The only path of the least depth that has one; <<>> when there is no path
\* or more than one at that depth.
ShallowestOnly(byDepth, depths) ==
    IF depths = {} THEN <<>>
    ELSE LET d == CHOOSE x \in depths : \A y \in depths : x <= y
         IN IF Cardinality(byDepth[d]) = 1 THEN CHOOSE q \in byDepth[d] : TRUE ELSE <<>>

NonEmptyDepths(byDepth) == {d \in DOMAIN byDepth : byDepth[d] # {}}

\* reflect.Type.FieldByName, as the names of the fields on the way.
FieldByNamePathOf(t, name) ==
    LET byDepth == [d \in 0..MaxEmbedDepth |-> EmbeddedPaths(t, name, d)]
    IN ShallowestOnly(byDepth, NonEmptyDepths(byDepth))

\* The struct types of the model and the names of their fields.
StructTypes ==
    {StructT(n) : n \in {"Nested", "Example", "AllPrimitives", "Dup", "A", "B", "TwoEmb",
                         "Shadow", "OwnFirst", "PtrEmb", "Enriched", "Exec", "Trace",
                         "Common", "Runtime", "Node", "Left", "Right", "Inner", "Outer"}}
    \cup {goTimeType}
FieldNames == UNION {{ft.Name : ft \in Range(StructFields(t))} : t \in StructTypes}

\* FieldByNamePathOf for every struct type and field name of the model.
FieldPaths == [t \in StructTypes |-> [n \in FieldNames |-> FieldByNamePathOf(t, n)]]

\* One step of reflect.Value.FieldByIndex: an embedded pointer on the way is
\* followed, and a nil one is a panic.
EmbeddedStep(h, v, name) ==
    IF Kind(v) = "ptr" /\ IsNil(v) THEN PanicRV
    ELSE FieldAt(Indirect(h, v), FieldIndex(ElemIfPtr(v.t), name))

\* reflect.Value.FieldByIndex, by the names of the fields on the way.
RECURSIVE FieldByIndex(_, _, _)
FieldByIndex(h, v, path) ==
    IF path = <<>> \/ ~v.valid THEN v
    ELSE FieldByIndex(h, EmbeddedStep(h, v, Head(path)), Tail(path))

\* The field that embedding promotes, by its path.
PromotedByPath(h, rv, path) ==
    IF path = <<>> THEN InvalidRV ELSE FieldByIndex(h, rv, path)

\* Field i of rv when name is directly declared (i > 0), else what embedding
\* promotes.
FieldOrPromoted(h, rv, name, i) ==
    IF i # 0 THEN FieldAt(rv, i) ELSE PromotedByPath(h, rv, FieldPaths[rv.t][name])

\* reflect.Value.FieldByName
FieldByName(h, rv, name) == FieldOrPromoted(h, rv, name, FieldIndex(rv.t, name))

\* reflect.Value.Interface: the value as an `any`; an interface value gives
\* what it holds.
Interface(rv) ==
    IF rv.t.k = "interface"
    THEN (IF rv.v = NilIface THEN NilAny ELSE AnyOf(rv.v.t, rv.v.v))
    ELSE AnyOf(rv.t, rv.v)

\* reflect.Value.Addr
Addr(rv) == RV(PtrT(rv.t), rv.loc, FALSE, NilPtr)

(***************************************************************************)
(* Wrappers and CEL values                                                  *)
(***************************************************************************)
\* *Object[T]: Raw is the Go value of type T, id tells allocations apart.
ObjectW(T, raw, celType, id) ==
    [w |-> "Object", T |-> T, Raw |-> raw, celType |-> celType, id |-> id]
\* *dynObject: Raw is an `any`.
DynObject(raw, typeName, celType) ==
    [w |-> "dyn", Raw |-> raw, typeName |-> typeName, celType |-> celType]
\* A value of one of cel-go's own value types (types.String, types.Timestamp, ...)
CelVal(ty, val) == [w |-> "cel", ty |-> ty, val |-> val]
\* types.NewErr / fmt.Errorf results
ErrVal(msg) == [w |-> "err", msg |-> msg]

\* Whether a Go value implements ref.Val.
IsRefVal(x) == "w" \in DOMAIN x /\ x.w \in {"Object", "dyn", "cel", "err"}

\* NewObject returns a CEL wrapper for val and its CEL object type.
NewObject(T, raw, id) ==
    ObjectW(T, raw, ObjectType(wrapperTypeName(T)), id)

\* Object.Type / dynObject.Type
TypeOfWrapper(o) ==
    IF o.celType # NoType THEN o.celType
    ELSE IF o.w = "Object" THEN ObjectType(wrapperTypeName(o.T))
    ELSE ObjectType(o.typeName)

\* reflect.TypeOf of a Go value handed over as `any`.
ReflectTypeOf(x) ==
    CASE x = NilAny -> [k |-> "nil"]
      [] "any" \in DOMAIN x -> x.t
      [] x.w = "Object" -> WrapperT(x.T)
      [] x.w = "dyn" -> DynT
      [] OTHER -> [k |-> "cel", name |-> x.w, ty |-> IF x.w = "cel" THEN x.ty ELSE ""]

(***************************************************************************)
(* Field access at evaluation time                                          *)
(***************************************************************************)
\* A faulty presenceIsSet: the generic nil check comes before the time rules.
PresenceNilFirst(h, fv) ==
    IF fv.t.k \in {"ptr", "slice", "map", "interface", "func", "chan"}
    THEN ~IsNil(fv)
    ELSE IF fv.t = goTimeType THEN ~IsZero(fv) ELSE TRUE

\* presenceIsSet reports whether fv should be considered present for CEL has().
presenceIsSet(h, fv) ==
    IF fv.t = goTimeType THEN ~IsZero(fv)
    ELSE IF fv.t.k = "ptr" /\ fv.t.elem = goTimeType
    THEN (IF IsNil(fv) THEN FALSE ELSE ~IsZero(Elem(h, fv)))
    ELSE IF fv.t.k \in {"ptr", "slice", "map", "interface", "func", "chan"}
    THEN ~IsNil(fv)
    ELSE TRUE

\* extractRawValue extracts the underlying Go value from *Object[T] or *dynObject.
extractRawValue(target) ==
    IF target = NilAny \/ "w" \notin DOMAIN target THEN InvalidRV
    ELSE CASE target.w = "Object" ->
                 IF target.T.k = "interface"
                 THEN (IF target.Raw = NilIface THEN InvalidRV
                       ELSE ValueOf(AnyOf(target.Raw.t, target.Raw.v)))
                 ELSE ValueOf(AnyOf(target.T, target.Raw))
           [] target.w = "dyn" -> ValueOf(target.Raw)
           [] OTHER -> InvalidRV

\* A faulty loop of getNestedField: it does not look into interface values.
RECURSIVE NestedFieldLoopNoInterface(_, _, _)
NestedFieldLoopNoInterface(h, v, parts) ==
    IF parts = <<>> THEN v
    ELSE LET v2 == IF Kind(v) = "ptr" THEN Elem(h, v) ELSE v
         IN IF Kind(v2) # "struct" THEN InvalidRV
            ELSE LET f == FieldByName(h, v2, Head(parts))
                 IN IF ~f.valid THEN f
                    ELSE NestedFieldLoopNoInterface(h, f, Tail(parts))

\* One round of the loop of getNestedField, and the loop.
RECURSIVE NestedFieldLoop(_, _, _)
NestedFieldLoop(h, v, parts) ==
    IF parts = <<>> THEN v
    ELSE IF Kind(v) = "interface" /\ IsNil(v) THEN InvalidRV
    ELSE LET v1 == IF Kind(v) = "interface" THEN Elem(h, v) ELSE v
             v2 == IF Kind(v1) = "ptr" THEN Elem(h, v1) ELSE v1
         IN IF Kind(v2) # "struct" THEN InvalidRV
            ELSE LET f == FieldByName(h, v2, Head(parts))
                 IN IF ~f.valid THEN f
                    ELSE NestedFieldLoop(h, f, Tail(parts))

\* getNestedField returns the value at the given path parts within v.
getNestedField(h, v, parts) ==
    IF Kind(v) = "interface" /\ IsNil(v) THEN InvalidRV
    ELSE LET v1 == IF Kind(v) = "interface" THEN Elem(h, v) ELSE v
             v2 == IF Kind(v1) = "ptr" THEN Elem(h, v1) ELSE v1
         IN NestedFieldLoop(h, v2, parts)

\* normalizeForCEL: [ok, v]; time.Time and *time.Time become cel Timestamps.
normalizeForCEL(h, fv) ==
    IF fv.t = goTimeType THEN [ok |-> TRUE, v |-> CelVal("Timestamp", fv.v)]
    ELSE IF Kind(fv) = "ptr" /\ Elem(h, fv).valid /\ Elem(h, fv).t = goTimeType
    THEN [ok |-> TRUE, v |-> CelVal("Timestamp", Elem(h, fv).v)]
    ELSE [ok |-> FALSE, v |-> NilAny]

\* What an accessor returns: the value and the error.
Got(v) == [v |-> v, err |-> <<>>]
NotFound(fullPath) == [v |-> NilAny, err |-> <<"field ", fullPath, " not found">>]

\* A faulty nested IsSet: it reports every resolvable nested field present.
NestedAlwaysSet(h, d, target) ==
    extractRawValue(target).valid
    /\ getNestedField(h, extractRawValue(target), d.parts).valid

\* IsSet of a nested-object descriptor (struct or pointer to struct).
nestedIsSet(h, d, target) ==
    LET x == extractRawValue(target)
    IN IF ~x.valid THEN FALSE
       ELSE LET f == getNestedField(h, x, d.parts)
            IN IF ~f.valid THEN FALSE
               ELSE IF Kind(f) = "ptr" THEN ~IsNil(f)
               ELSE TRUE

\* GetFrom of a nested-object descriptor: a dynObject over a pointer to the struct.
nestedGetFrom(h, d, target) ==
    LET x == extractRawValue(target)
    IN IF ~x.valid THEN NotFound(d.fullPath)
       ELSE LET f == getNestedField(h, x, d.parts)
            IN IF ~f.valid THEN NotFound(d.fullPath)
               ELSE LET fv == IF Kind(f) # "ptr"
                              THEN (IF f.canAddr THEN Addr(f)
                                    ELSE RV(PtrT(f.t), FreshPtr(f.t, f.v), FALSE, NilPtr))
                              ELSE f
                    IN Got(DynObject(Interface(fv), d.nestedTypeName, d.Type))

\* IsSet of a leaf descriptor.
leafIsSet(h, d, target) ==
    LET x == extractRawValue(target)
    IN IF ~x.valid THEN FALSE
       ELSE LET f == getNestedField(h, x, d.parts)
            IN IF ~f.valid THEN FALSE ELSE presenceIsSet(h, f)

\* A faulty leaf GetFrom: it reads the field of the parent level, not the path.
LeafGetFromLastPart(h, d, target) ==
    LET x == extractRawValue(target)
    IN IF ~x.valid THEN NotFound(d.fullPath)
       ELSE LET f == getNestedField(h, x, <<d.parts[1]>>)
            IN IF ~f.valid THEN NotFound(d.fullPath)
               ELSE IF normalizeForCEL(h, f).ok THEN Got(normalizeForCEL(h, f).v)
               ELSE Got(Interface(f))

\* GetFrom of a leaf descriptor.
leafGetFrom(h, d, target) ==
    LET x == extractRawValue(target)
    IN IF ~x.valid THEN NotFound(d.fullPath)
       ELSE LET f == getNestedField(h, x, d.parts)
            IN IF ~f.valid THEN NotFound(d.fullPath)
               ELSE IF normalizeForCEL(h, f).ok THEN Got(normalizeForCEL(h, f).v)
               ELSE Got(Interface(f))

\* The descriptors callers write by hand (ExampleNewObject): "name" is present
\* when the wrapped pointer is non-nil and Name is not empty, and reads Name.
manualIsSet(h, d, target) ==
    /\ IsRefVal(target) /\ target.w = "Object" /\ target.T.k = "ptr"
    /\ target.Raw # NilPtr
    /\ Elem(h, RV(target.T, target.Raw, FALSE, NilPtr)).v.fields[d.goField] # Str("")

manualGetFrom(h, d, target) ==
    IF IsRefVal(target) /\ target.w = "Object" /\ target.T.k = "ptr" /\ target.Raw # NilPtr
    THEN Got(AnyOf(StringT, Elem(h, RV(target.T, target.Raw, FALSE, NilPtr)).v.fields[d.goField]))
    ELSE [v |-> NilAny, err |-> <<"celval: object is nil">>]

\* types.FieldType.IsSet / GetFrom of a descriptor, by the closure it holds.
CallIsSet(h, d, target) ==
    CASE d.fn = "nested" -> nestedIsSet(h, d, target)
      [] d.fn = "leaf" -> leafIsSet(h, d, target)
      [] OTHER -> manualIsSet(h, d, target)

CallGetFrom(h, d, target) ==
    CASE d.fn = "nested" -> nestedGetFrom(h, d, target)
      [] d.fn = "leaf" -> leafGetFrom(h, d, target)
      [] OTHER -> manualGetFrom(h, d, target)

(***************************************************************************)
(* The methods of the wrappers                                              *)
(***************************************************************************)
\* reflect.TypeOf(o.Raw): T itself, or for an interface T (and for the `any`
\* of a dynObject) the dynamic type of what Raw holds, nil when it holds nothing.
TypeOfRaw(o) ==
    IF o.w = "dyn" THEN (IF o.Raw = NilAny THEN [k |-> "nil"] ELSE o.Raw.t)
    ELSE IF o.T.k = "interface"
    THEN (IF o.Raw = NilIface THEN [k |-> "nil"] ELSE o.Raw.t)
    ELSE o.T

\* o.Raw handed back as an `any`.
RawOf(o) ==
    IF o.w = "dyn" THEN o.Raw
    ELSE IF o.T.k = "interface"
    THEN (IF o.Raw = NilIface THEN NilAny ELSE AnyOf(o.Raw.t, o.Raw.v))
    ELSE AnyOf(o.T, o.Raw)

\* "xcel: type conversion error from '%s' to '%s'" of o.Type() and the target.
ConversionError(o, target) ==
    <<"xcel: type conversion error from '", TypeName(TypeOfWrapper(o)), "' to '", target, "'">>

\* A faulty ConvertToNative: it takes a pointer type for the type it points to.
ConvertToNativeAnyDepth(o, typeDesc) ==
    IF StripPtr(typeDesc) = StripPtr(TypeOfRaw(o)) THEN Got(RawOf(o))
    ELSE [v |-> NilAny, err |-> ConversionError(o, TypeString(typeDesc))]

\* Object.ConvertToNative / dynObject.ConvertToNative
ConvertToNative(o, typeDesc) ==
    IF (o.w = "dyn" => o.Raw # NilAny) /\ typeDesc = TypeOfRaw(o) THEN Got(RawOf(o))
    ELSE [v |-> NilAny, err |-> ConversionError(o, TypeString(typeDesc))]

\* A ref.Type as the methods compare it: a *types.Type, equal to another only
\* when it is the same allocation.  `at` tells the allocations apart: the one
\* NewObject made for wrapper id, the one a descriptor holds for the wrappers
\* its accessor makes, the one call number k of Type() made, cel-go's own.
Handle(ty, at) == [ty |-> ty, at |-> at]

\* Object.Type / dynObject.Type as call number k: the stored handle, or a
\* handle allocated by this call when the wrapper has none.
TypeHandle(o, k) ==
    IF o.celType # NoType
    THEN Handle(o.celType, IF o.w = "Object" THEN <<"NewObject", o.id>>
                           ELSE <<"FieldType", o.typeName>>)
    ELSE Handle(TypeOfWrapper(o), <<"Type", k>>)

\* A faulty ConvertToType: it returns the wrapper for every requested type.
ConvertToTypeAlways(o, typeValue, k) == o

\* Object.ConvertToType / dynObject.ConvertToType; its call of Type() is call k.
ConvertToType(o, typeValue, k) ==
    IF typeValue = TypeHandle(o, k) THEN o
    ELSE ErrVal(ConversionError(o, TypeName(typeValue.ty)))

\* What a pointer points to in heap h.
Deref(h, t, p) == Elem(h, RV(t, p, FALSE, NilPtr)).v

\* reflect's deepValueEqual on two values of type t; visited holds the pairs
\* of pointers already being compared.
RECURSIVE deepValueEqual(_, _, _, _, _)
deepValueEqual(h, t, v1, v2, visited) ==
    CASE t.k = "ptr" ->
            IF v1 = NilPtr \/ v2 = NilPtr THEN v1 = v2
            ELSE IF v1 = v2 \/ <<v1, v2>> \in visited THEN TRUE
            ELSE deepValueEqual(h, t.elem, Deref(h, t, v1), Deref(h, t, v2),
                                visited \cup {<<v1, v2>>})
      [] t.k = "interface" ->
            IF v1 = NilIface \/ v2 = NilIface THEN v1 = v2
            ELSE IF v1.t # v2.t THEN FALSE
            ELSE deepValueEqual(h, v1.t, v1.v, v2.v, visited)
      [] t.k = "func" -> v1 = NilFunc /\ v2 = NilFunc
      [] t.k = "struct" /\ t # goTimeType ->
            \A i \in 1..NumField(t) :
                deepValueEqual(h, StructFields(t)[i].Type, v1.fields[StructFields(t)[i].Name],
                               v2.fields[StructFields(t)[i].Name], visited)
      [] OTHER -> v1 = v2

\* reflect.DeepEqual of two `any`
DeepEqual(h, x, y) ==
    IF x = NilAny \/ y = NilAny THEN x = y
    ELSE IF x.t # y.t THEN FALSE
    ELSE deepValueEqual(h, x.t, x.v, y.v, {})

\* A faulty Equal: it compares the held values as they are, pointer by pointer.
EqualSameRaw(h, o, other) ==
    CelVal("bool", BoolV(/\ other.w = o.w
                         /\ (o.w = "Object" => other.T = o.T)
                         /\ RawOf(o) = RawOf(other)))

\* Object.Equal / dynObject.Equal: other.(*Object[T]) (other.(*dynObject)),
\* then reflect.DeepEqual of the two Raw.
Equal(h, o, other) ==
    IF other.w = o.w /\ (o.w = "Object" => other.T = o.T)
    THEN CelVal("bool", BoolV(DeepEqual(h, RawOf(o), RawOf(other))))
    ELSE CelVal("bool", BoolV(FALSE))

(***************************************************************************)
(* Building field descriptors                                               *)
(* A descriptor (types.FieldType) is [Type, fn, ...]: fn names the pair of  *)
(* closures it holds and the other fields are what the closures captured.   *)
(* Each loop of the code is a fold of its body over the fields of the       *)
(* struct; `continue` is the body returning the map unchanged.              *)
(***************************************************************************)
NestedDesc(nestedTypeName, fullPath) ==
    [Type |-> ObjectType(nestedTypeName), fn |-> "nested",
     parts |-> SplitDots(fullPath), fullPath |-> fullPath,
     nestedTypeName |-> nestedTypeName]
LeafDesc(sf, fullPath) ==
    [Type |-> celTypeForField(sf), fn |-> "leaf",
     parts |-> SplitDots(fullPath), fullPath |-> fullPath, sf |-> sf]

\* A map with one more entry (fields[name] = d).
Put(fields, name, d) == (name :> d) @@ fields

\* fieldValue.Kind() == Struct || (fieldValue.Kind() == Ptr && fieldValue.Elem().Kind() == Struct)
IsStructLike(h, fieldValue) ==
    \/ Kind(fieldValue) = "struct"
    \/ (Kind(fieldValue) = "ptr" /\ Kind(Elem(h, fieldValue)) = "struct")

\* if _, exists := fields[nestedFieldName]; !exists { fields[nestedFieldName] = ... }
AddNested(fields, name, underlying, fullPath) ==
    IF name \notin DOMAIN fields
    THEN Put(fields, name, NestedDesc(wrapperTypeNameFor(underlying), fullPath))
    ELSE fields

RECURSIVE processPromotedFields(_, _, _, _)

\* if ft.Anonymous { processPromotedFields(fields, fieldValue, path, true) }
PromoteIfAnonymous(h, fields, fieldValue, ft, path) ==
    IF ft.Anonymous THEN processPromotedFields(h, fields, fieldValue, path) ELSE fields

\* A faulty promoted leaf: a later field of the same name replaces the earlier.
PromotedLeafLastWins(fields, ft, name, fullPath) ==
    Put(fields, name, LeafDesc(ft, fullPath))

\* The leaf branch of processPromotedFields: the first writer of a name wins.
PromotedLeaf(fields, ft, name, fullPath) ==
    IF name \in DOMAIN fields THEN fields
    ELSE Put(fields, name, LeafDesc(ft, fullPath))

\* The body of the loop of processPromotedFields for an exported field.
PromotedField(h, fields, fieldValue, ft, fullPath, name, underlying) ==
    IF IsStructLike(h, fieldValue) /\ underlying # goTimeType
    THEN PromoteIfAnonymous(h, AddNested(fields, name, underlying, fullPath),
                            fieldValue, ft, fullPath)
    ELSE IF Kind(fieldValue) = "func" THEN fields
    ELSE PromotedLeaf(fields, ft, name, fullPath)

PromotedStep(h, fields, v, prefix, ft, i) ==
    IF ~IsExported(ft) THEN fields
    ELSE PromotedField(h, fields, FieldAt(v, i), ft, prefix \o <<".">> \o ft.Name,
                       toSnakeCase(ft.Name), ElemIfPtr(ft.Type))

RECURSIVE PromotedFrom(_, _, _, _, _)
PromotedFrom(h, fields, v, prefix, i) ==
    IF i > NumField(v.t) THEN fields
    ELSE PromotedFrom(h, PromotedStep(h, fields, v, prefix, StructFields(v.t)[i], i),
                      v, prefix, i + 1)

PromotedOf(h, fields, v, prefix) ==
    IF Kind(v) # "struct" THEN fields ELSE PromotedFrom(h, fields, v, prefix, 1)

\* A faulty processPromotedFields: it promotes nothing.
PromoteNothing(h, fields, v, prefix) == fields

\* processPromotedFields(fields, v, prefix, true): the leaf fields of an
\* anonymous embedded struct v become fields of the parent.
processPromotedFields(h, fields, v, prefix) == PromotedOf(h, fields, Indirect(h, v), prefix)

\* What a build returns: the map, or the panic that ended it.
Built(fields) == [ok |-> TRUE, m |-> fields, panic |-> <<>>]
Panicked(name, rootType, goField) ==
    [ok |-> FALSE, m |-> <<>>,
     panic |-> <<"xcel: field name collision", name, TypeString(rootType), goField>>]

\* A faulty immediate leaf: on a taken name it keeps the earlier descriptor.
ImmediateLeafSkips(fields, rootType, ft, name) ==
    IF name \in DOMAIN fields THEN Built(fields)
    ELSE Built(Put(fields, name, LeafDesc(ft, ft.Name)))

\* The leaf branch of processImmediateFields: a taken name is a panic.
ImmediateLeaf(fields, rootType, ft, name) ==
    IF name \in DOMAIN fields THEN Panicked(name, rootType, ft.Name)
    ELSE Built(Put(fields, name, LeafDesc(ft, ft.Name)))

\* The body of the loop of processImmediateFields once the interface is resolved.
ImmediateField(h, fields, rootType, ft, fieldValue, underlying, name) ==
    IF IsStructLike(h, fieldValue) /\ underlying # goTimeType
    THEN Built(PromoteIfAnonymous(h, AddNested(fields, name, underlying, ft.Name),
                                  fieldValue, ft, ft.Name))
    ELSE ImmediateLeaf(fields, rootType, ft, name)

\* fieldValue = fieldValue.Elem(); underlying = fieldValue.Type()
ImmediateInterface(h, fields, rootType, ft, elem) ==
    ImmediateField(h, fields, rootType, ft, elem, ElemIfPtr(elem.t), toSnakeCase(ft.Name))

\* The body of the loop of processImmediateFields for an exported field.
ImmediateValue(h, fields, rootType, ft, fieldValue) ==
    IF Kind(fieldValue) = "func" THEN Built(fields)
    ELSE IF ft.Type.k = "interface"
    THEN (IF IsNil(fieldValue) THEN Built(fields)
          ELSE ImmediateInterface(h, fields, rootType, ft, Elem(h, fieldValue)))
    ELSE ImmediateField(h, fields, rootType, ft, fieldValue, ElemIfPtr(ft.Type),
                        toSnakeCase(ft.Name))

ImmediateStep(h, fields, v, ft, i) ==
    IF ~IsExported(ft) THEN Built(fields)
    ELSE ImmediateValue(h, fields, v.t, ft, FieldAt(v, i))

\* The loop of processImmediateFields from field i on; r is the map so far.
RECURSIVE ImmediateFrom(_, _, _, _)
ImmediateFrom(h, r, v, i) ==
    IF i > NumField(v.t) \/ ~r.ok THEN r
    ELSE ImmediateFrom(h, ImmediateStep(h, r.m, v, StructFields(v.t)[i], i), v, i + 1)

ImmediateOf(h, fields, v) ==
    IF Kind(v) # "struct" THEN Built(fields) ELSE ImmediateFrom(h, Built(fields), v, 1)

\* processImmediateFields records field metadata for v's immediate fields.
processImmediateFields(h, fields, v) == ImmediateOf(h, fields, Indirect(h, v))

\* newFieldsFromRaw builds field metadata for a raw Go value.
newFieldsFromRaw(h, raw) == processImmediateFields(h, <<>>, Indirect(h, ValueOf(raw)))

\* NewFields returns CEL field metadata for the immediate fields of objt.
NewFields(h, objt) == newFieldsFromRaw(h, AnyOf(objt.T, objt.Raw))

(***************************************************************************)
(* TypeProvider and TypeAdapter                                             *)
(***************************************************************************)
\* NewTypeProvider / NewTypeAdapter
NewTypeProvider == [Idents |-> <<>>, Types |-> <<>>, Structs |-> <<>>, StructFieldTypes |-> <<>>]
NewTypeAdapter == <<>>

RegisterIdent(p, name, value) == [p EXCEPT !.Idents = Put(@, name, value)]
RegisterType(p, t) == [p EXCEPT !.Types = Put(@, TypeName(t), t)]
registerStructFieldType(p, name, fields) ==
    [p EXCEPT !.StructFieldTypes = Put(@, name, fields)]

\* A faulty RegisterStructType: it keeps the set a name already has.
RegisterStructTypeKeepFirst(p, name, fields) ==
    IF name \in DOMAIN p.Structs THEN p
    ELSE registerStructFieldType([p EXCEPT !.Structs = Put(@, name, fields)], name, fields)

RegisterStructType(p, name, fields) ==
    registerStructFieldType([p EXCEPT !.Structs = Put(@, name, fields)], name, fields)

\* TypeProvider.Find*: [v, ok]
FindIdent(p, identName) ==
    IF identName \in DOMAIN p.Idents THEN [v |-> p.Idents[identName], ok |-> TRUE]
    ELSE [v |-> NilAny, ok |-> FALSE]
FindStructType(p, structType) ==
    IF structType \in DOMAIN p.Types THEN [v |-> p.Types[structType], ok |-> TRUE]
    ELSE [v |-> NoType, ok |-> FALSE]
FindStructFieldNames(p, structType) ==
    IF structType \in DOMAIN p.Structs
    THEN [v |-> DOMAIN p.Structs[structType], ok |-> TRUE]
    ELSE [v |-> {}, ok |-> FALSE]
FindStructFieldType(p, messageType, fieldName) ==
    IF messageType \in DOMAIN p.StructFieldTypes
       /\ fieldName \in DOMAIN p.StructFieldTypes[messageType]
    THEN [v |-> p.StructFieldTypes[messageType][fieldName], ok |-> TRUE]
    ELSE [v |-> NoType, ok |-> FALSE]

\* types.DefaultTypeAdapter.NativeToValue (cel-go): a ref.Val is returned as
\* it is, a native value becomes the cel value of its kind.
DefaultNativeToValue(value) ==
    IF value = NilAny THEN CelVal("Null", "nil")
    ELSE IF IsRefVal(value) THEN value
    ELSE CelVal(value.t.k, value.v)

\* A faulty entry for the raw type: it wraps the value it is given.
RegisteredWrapsValue(entry, value) == NewObject(entry.objt.T, value.v, 0)

\* The two functions RegisterObject stores in the adapter.
\* ta[reflect.TypeOf(objt.Raw)]: return the registered wrapper.
RegisteredWrapperFn(entry, value) == entry.objt

\* A faulty wrapper entry: it wraps whatever it is given.
AlwaysWrapFn(entry, value) == NewObject(entry.T, value, 0)

\* ta[reflect.TypeOf(objt)]: pass a ref.Val through, wrap a bare native value.
WrapperTypeFn(entry, value) ==
    IF IsRefVal(value) THEN value
    ELSE NewObject(entry.T, value.v, 0)

\* A faulty NativeToValue: it never looks into the adapter.
NativeToValueNoAdapter(a, value) == DefaultNativeToValue(value)

\* TypeAdapter.NativeToValue
NativeToValue(a, value) ==
    IF ReflectTypeOf(value) \in DOMAIN a
    THEN (IF a[ReflectTypeOf(value)].fn = "registered"
          THEN RegisteredWrapperFn(a[ReflectTypeOf(value)], value)
          ELSE WrapperTypeFn(a[ReflectTypeOf(value)], value))
    ELSE DefaultNativeToValue(value)

(***************************************************************************)
(* Registration                                                             *)
(***************************************************************************)
\* What the nested walk carries: the provider, the visited set, a panic.
Walk(p, visited, panic) == [tp |-> p, visited |-> visited, panic |-> panic]

\* A faulty nested registration: it registers without looking for the name.
RegisterNestedOverwrite(p, name, nestedFields) ==
    RegisterStructType(RegisterType(p, ObjectType(name)), name, nestedFields)

\* if _, exists := tp.Structs[name]; !exists { RegisterType; RegisterStructType }
RegisterNestedIfAbsent(p, name, nestedFields) ==
    IF name \notin DOMAIN p.Structs
    THEN RegisterStructType(RegisterType(p, ObjectType(name)), name, nestedFields)
    ELSE p

RECURSIVE registerNestedTypes(_, _, _, _)

\* Register the nested type under both names, then recurse into its zero value.
RegisterNested(h, w, underlying, zeroPtr, nested) ==
    IF ~nested.ok THEN Walk(w.tp, w.visited, nested.panic)
    ELSE registerNestedTypes(h,
             RegisterNestedIfAbsent(
                 RegisterNestedIfAbsent(w.tp, wrapperTypeNameFor(underlying), nested.m),
                 typeNameOf(underlying), nested.m),
             zeroPtr, w.visited)

\* zeroPtr := reflect.New(underlying); nestedFields := newFieldsFromRaw(zeroPtr.Interface())
NestedOfZero(h, w, underlying, zeroPtr) ==
    RegisterNested(h, w, underlying, zeroPtr, newFieldsFromRaw(h, zeroPtr))

\* The body of the loop of registerNestedTypes once the interface is resolved.
NestedTypeField(h, w, fieldValue, underlying) ==
    IF IsStructLike(h, fieldValue) /\ underlying # goTimeType
    THEN NestedOfZero(h, w, underlying,
                      AnyOf(PtrT(underlying), FreshPtr(underlying, ZeroOf(underlying))))
    ELSE w

NestedTypeInterface(h, w, elem) == NestedTypeField(h, w, elem, ElemIfPtr(elem.t))

NestedTypeValue(h, w, ft, fieldValue) ==
    IF ft.Type.k = "interface"
    THEN (IF IsNil(fieldValue) THEN w ELSE NestedTypeInterface(h, w, Elem(h, fieldValue)))
    ELSE NestedTypeField(h, w, fieldValue, ElemIfPtr(ft.Type))

NestedTypeStep(h, w, v, ft, i) ==
    IF ~IsExported(ft) THEN w ELSE NestedTypeValue(h, w, ft, FieldAt(v, i))

\* The loop of registerNestedTypes over the fields of struct v, from field i on.
RECURSIVE NestedTypesFrom(_, _, _, _)
NestedTypesFrom(h, w, v, i) ==
    IF i > NumField(v.t) \/ w.panic # <<>> THEN w
    ELSE NestedTypesFrom(h, NestedTypeStep(h, w, v, StructFields(v.t)[i], i), v, i + 1)

NestedTypesOf(h, p, v, vt, visited) ==
    IF vt \in visited THEN Walk(p, visited, <<>>)
    ELSE IF Kind(v) # "struct" THEN Walk(p, visited \cup {vt}, <<>>)
    ELSE NestedTypesFrom(h, Walk(p, visited \cup {vt}, <<>>), v, 1)

\* registerNestedTypes registers the named nested struct types reachable from raw.
registerNestedTypes(h, p, raw, visited) ==
    NestedTypesOf(h, p, Indirect(h, ValueOf(raw)), StripPtr(raw.t), visited)

\* A faulty overlay: the automatic descriptor wins over the caller's.
OverlayAutoWins(auto, fields) ==
    IF ~fields.given THEN auto ELSE auto @@ fields.m

\* RegisterObject lines 206-216: auto overlaid by the caller's fields.
Overlay(auto, fields) ==
    IF ~fields.given THEN auto ELSE fields.m @@ auto

\* What RegisterObject leaves: the adapter, the provider and the panic that
\* ended it (<<>> when it returned).
Registered(a, w) == [ta |-> a, tp |-> w.tp, panic |-> w.panic]

\* A faulty registration: a set already registered under a name is kept.
RegisterBothIfAbsent(p, t, altName, merged) ==
    RegisterNestedIfAbsent(RegisterNestedIfAbsent(p, TypeName(t), merged), altName, merged)

\* RegisterType and RegisterStructType under the wrapper name and the Go name.
RegisterBoth(p, t, altName, merged) ==
    RegisterStructType(RegisterType(
        RegisterStructType(RegisterType(p, t), TypeName(t), merged),
        ObjectType(altName)), altName, merged)

\* RegisterObject from the overlay on.
RegisterObjectWith(h, a1, p, objt, t, fields, auto) ==
    IF ~auto.ok THEN [ta |-> a1, tp |-> p, panic |-> auto.panic]
    ELSE Registered(Put(a1, WrapperT(objt.T), [fn |-> "wrapper", T |-> objt.T]),
                    registerNestedTypes(h,
                        RegisterBoth(p, t, typeNameOf(StripPtr(objt.T)),
                                     Overlay(auto.m, fields)),
                        AnyOf(objt.T, objt.Raw), {}))

\* RegisterObject registers objt and its type with the given adapter and provider.
RegisterObjectResult(h, a, p, objt, t, fields) ==
    RegisterObjectWith(h, Put(a, objt.T, [fn |-> "registered", objt |-> objt]),
                       p, objt, t, fields, NewFields(h, objt))

\* The caller's fields argument: nil, or a map of hand-written descriptors.
NoFields == [given |-> FALSE, m |-> <<>>]
Fields(m) == [given |-> TRUE, m |-> m]

(***************************************************************************)
(* The program the library runs in: its objects and its calls               *)
(***************************************************************************)
Obj(t, fields) == [t |-> t, v |-> StructV(fields)]

NestedV(toto, level) == StructV((nToto :> Str(toto)) @@ (nLevel :> IntV(level)))
AV(id) == StructV((nID :> Str(id)))

EventOf(addr) == IfaceV(PtrT(StructT("Exec")), HeapPtr(addr, <<>>))

InitHeap ==
    ("ex" :> Obj(StructT("Example"),
                 (nNested :> NestedV("toto", 7)) @@ (nNamedNested :> NestedV("titi", 0))
                 @@ (nName :> Str("test")) @@ (nParent :> HeapPtr("parent", <<>>))
                 @@ (nFn :> FnV("f1")) @@ (nCreatedAt :> TimeV(5, "nil"))
                 @@ (nUpdatedAt :> HeapPtr("t0", <<>>)) @@ (nSecret :> IntV(9))))
    @@ ("parent" :> Obj(StructT("Example"),
                 (nNested :> NestedV("", 0)) @@ (nNamedNested :> NestedV("", 0))
                 @@ (nName :> Str("root")) @@ (nParent :> NilPtr)
                 @@ (nFn :> NilFunc) @@ (nCreatedAt :> ZeroTime)
                 @@ (nUpdatedAt :> NilPtr) @@ (nSecret :> IntV(0))))
    @@ ("t0" :> [t |-> goTimeType, v |-> TimeV(6, "nil")])
    @@ ("ap" :> Obj(StructT("AllPrimitives"),
                 (nName :> Str("dns")) @@ (nAge :> IntV(42)) @@ (nCount :> IntV(100))
                 @@ (nScore :> FltV(314)) @@ (nActive :> BoolV(TRUE))
                 @@ (nBlob :> SliceV(<<1, 2>>)) @@ (nTags :> SliceV(<<"a", "b">>))))
    @@ ("dup" :> Obj(StructT("Dup"), (nFooBar :> Str("x")) @@ (nFoo_Bar :> Str("y"))))
    @@ ("two" :> Obj(StructT("TwoEmb"),
                 (nA :> AV("a")) @@ (nB :> StructV((nID :> Str("b")) @@ (nExtra :> IntV(1))))))
    @@ ("shadow" :> Obj(StructT("Shadow"), (nA :> AV("a")) @@ (nID :> Str("s"))))
    @@ ("own" :> Obj(StructT("OwnFirst"),
                 (nID :> Str("o")) @@ (nA :> AV("a"))
                 @@ (nNamed :> StructV((nID :> Str("f")) @@ (nExtra :> IntV(2))))))
    @@ ("pe" :> Obj(StructT("PtrEmb"), (nNested :> HeapPtr("nested", <<>>)) @@ (nX :> IntV(1))))
    @@ ("nested" :> [t |-> StructT("Nested"), v |-> NestedV("n", 3)])
    @@ ("en" :> Obj(StructT("Enriched"), (nEvent :> EventOf("exec"))))
    @@ ("exec" :> Obj(StructT("Exec"),
                 (nTrace :> StructV((nCommon :> StructV((nRuntime :>
                                StructV((nContainerID :> Str("test"))))))
                            @@ (nPid :> IntV(1234))))))

\* The hand-written descriptors a caller passes for Example and for Nested.
kName == <<"n","a","m","e">>
kNick == <<"n","i","c","k">>
kToto == <<"t","o","t","o">>
ManualDesc(type, goField, tag) == [Type |-> type, fn |-> "manual", goField |-> goField, tag |-> tag]
ManualExample == (kName :> ManualDesc(CelStringType, nName, "name"))
                 @@ (kNick :> ManualDesc(CelStringType, nName, "nick"))
ManualNested == (kToto :> ManualDesc(CelStringType, nToto, "toto"))

\* The wrapper the caller makes of heap object addr: of a pointer to it, or of a copy.
WrapPtr(h, addr, id) == NewObject(PtrT(h[addr].t), HeapPtr(addr, <<>>), id)
WrapCopy(h, addr, id) == NewObject(h[addr].t, h[addr].v, id)

\* The RegisterObject calls of the model: [addr, copy, fields].
Call(addr, copy, fields) == [addr |-> addr, copy |-> copy, fields |-> fields]
RegisterCalls ==
    { Call("ex", FALSE, NoFields), Call("ex", FALSE, Fields(ManualExample)),
      Call("ex", TRUE, NoFields),
      Call("nested", FALSE, Fields(ManualNested)),
      Call("pe", FALSE, NoFields), Call("en", FALSE, NoFields),
      Call("dup", FALSE, NoFields), Call("two", FALSE, NoFields),
      Call("shadow", FALSE, NoFields), Call("own", FALSE, NoFields),
      Call("ap", FALSE, NoFields) }

\* The assignments the program makes to its objects: [addr, path, v].
Assign(addr, path, v) == [addr |-> addr, path |-> path, v |-> v]
Assignments ==
    { Assign("ex", <<nParent>>, NilPtr), Assign("ex", <<nParent>>, HeapPtr("parent", <<>>)),
      Assign("ex", <<nUpdatedAt>>, NilPtr), Assign("ex", <<nUpdatedAt>>, HeapPtr("t0", <<>>)),
      Assign("t0", <<>>, ZeroTime), Assign("t0", <<>>, TimeV(0, "Local")),
      Assign("t0", <<>>, TimeV(6, "nil")),
      Assign("pe", <<nNested>>, NilPtr), Assign("pe", <<nNested>>, HeapPtr("nested", <<>>)),
      Assign("en", <<nEvent>>, NilIface), Assign("en", <<nEvent>>, EventOf("exec")),
      Assign("ex", <<nName>>, Str("")), Assign("ex", <<nName>>, Str("test")),
      Assign("exec", <<nTrace, nCommon, nRuntime, nContainerID>>, Str("other")),
      Assign("exec", <<nTrace, nCommon, nRuntime, nContainerID>>, Str("test")) }

Init ==
    /\ heap = InitHeap
    /\ ta = NewTypeAdapter
    /\ tp = NewTypeProvider
    /\ last = [op |-> "init"]
    /\ firstReg = <<>>
    /\ nops = 0

\* The history of first registrations after the provider became p.
FirstRegAfter(first, p) ==
    [n \in DOMAIN p.Structs |-> IF n \in DOMAIN first THEN first[n] ELSE p.Structs[n]]

\* The state after RegisterObject returned or panicked with r.
RegisterObjectDone(c, objt, r) ==
    /\ ta' = r.ta
    /\ tp' = r.tp
    /\ last' = [op |-> "RegisterObject", call |-> c, objt |-> objt,
                panic |-> r.panic, before |-> tp]
    /\ firstReg' = FirstRegAfter(firstReg, r.tp)

RegisterObjectOf(c, objt) ==
    RegisterObjectDone(c, objt, RegisterObjectResult(heap, ta, tp, objt, objt.celType, c.fields))

\* obj, typ := NewObject(...); RegisterObject(ta, tp, obj, typ, fields)
DoRegisterObject(c) ==
    /\ nops < MaxOps
    /\ RegisterObjectOf(c, IF c.copy THEN WrapCopy(heap, c.addr, nops + 1)
                           ELSE WrapPtr(heap, c.addr, nops + 1))
    /\ nops' = nops + 1
    /\ UNCHANGED heap

\* RegisterStructType(tp, name, fields) called by the program itself.
DoRegisterStructType(name, fields) ==
    /\ nops < MaxOps
    /\ tp' = RegisterStructType(tp, name, fields)
    /\ last' = [op |-> "RegisterStructType", name |-> name, fields |-> fields,
                before |-> tp]
    /\ firstReg' = FirstRegAfter(firstReg, tp')
    /\ nops' = nops + 1
    /\ UNCHANGED <<heap, ta>>

\* RegisterIdent(tp, name, value)
DoRegisterIdent(name, value) ==
    /\ nops < MaxOps
    /\ tp' = RegisterIdent(tp, name, value)
    /\ last' = [op |-> "RegisterIdent", name |-> name, before |-> tp]
    /\ nops' = nops + 1
    /\ UNCHANGED <<heap, ta, firstReg>>

\* The program assigns to a field of one of its objects.
DoAssign(a) ==
    /\ nops < MaxOps
    /\ ValueAt(heap[a.addr].v, a.path) # a.v
    /\ heap' = [heap EXCEPT ![a.addr].v = WithValueAt(@, a.path, a.v)]
    /\ last' = [op |-> "Assign", assign |-> a]
    /\ nops' = nops + 1
    /\ UNCHANGED <<ta, tp, firstReg>>

Next ==
    \/ \E c \in RegisterCalls : DoRegisterObject(c)
    \/ DoRegisterStructType(wrapperTypeName(PtrT(StructT("Example"))), ManualExample)
    \/ DoRegisterIdent(<<"v","e","r","s","i","o","n">>, CelVal("int", IntV(1)))
    \/ \E a \in Assignments : DoAssign(a)

Spec == Init /\ [][Next]_vars

(***************************************************************************)
(* Evaluation: the registries are populated, and the host runtime and the   *)
(* callers only read: Find*, NativeToValue, the descriptors' closures and   *)
(* the wrappers' methods.  `last` holds the call made and what it returned.  *)
(***************************************************************************)
\* The registrations made before evaluation starts.
ReadSetups ==
    { <<Call("ex", FALSE, NoFields)>>, <<Call("ex", FALSE, Fields(ManualExample))>>,
      <<Call("ex", TRUE, NoFields)>>, <<Call("en", FALSE, NoFields)>>,
      <<Call("nested", FALSE, Fields(ManualNested)), Call("ex", FALSE, NoFields)>>,
      <<Call("ex", FALSE, NoFields), Call("en", FALSE, NoFields)>> }

\* The wrapper call number i registers.
SetupWrapper(h, c, i) == IF c.copy THEN WrapCopy(h, c.addr, i) ELSE WrapPtr(h, c.addr, i)

\* The registries after the calls of a setup, from call i on.
RECURSIVE PopulateFrom(_, _, _, _)
PopulateFrom(h, r, calls, i) ==
    IF i > Len(calls) THEN r
    ELSE PopulateFrom(h, RegisterObjectResult(h, r.ta, r.tp, SetupWrapper(h, calls[i], i),
                                              SetupWrapper(h, calls[i], i).celType,
                                              calls[i].fields),
                      calls, i + 1)

Populated(h, calls) ==
    PopulateFrom(h, [ta |-> NewTypeAdapter, tp |-> NewTypeProvider, panic |-> <<>>], calls, 1)

InitRead ==
    /\ heap = InitHeap
    /\ \E s \in ReadSetups :
          /\ ta = Populated(InitHeap, s).ta
          /\ tp = Populated(InitHeap, s).tp
          /\ last = [op |-> "populated", calls |-> s]
          /\ nops = Len(s)
    /\ firstReg = FirstRegAfter(<<>>, tp)

\* The wrappers the callers make themselves: of a pointer, of a copy, as a
\* literal &Object[T]{Raw: v} (no type handle), and of an interface value.
CallerWrappers(h) ==
    { WrapPtr(h, "ex", 10), WrapCopy(h, "ex", 10), WrapPtr(h, "parent", 10),
      ObjectW(PtrT(h["ex"].t), HeapPtr("ex", <<>>), NoType, 10),
      WrapPtr(h, "en", 10),
      NewObject(IfaceT("K8sEvent"), EventOf("exec"), 10) }

\* The wrappers RegisterObject was called with.
RegisteredWrappers(a) == {a[t].objt : t \in {u \in DOMAIN a : a[u].fn = "registered"}}

\* The descriptor set the provider has for the type of wrapper w.
SetOf(p, w) ==
    IF TypeName(TypeOfWrapper(w)) \in DOMAIN p.Structs
    THEN p.Structs[TypeName(TypeOfWrapper(w))] ELSE <<>>

\* The wrapper a nested accessor makes of the struct of type t that p points to.
AccessorWrapper(t, p) ==
    DynObject(AnyOf(PtrT(t), p), wrapperTypeNameFor(t), ObjectType(wrapperTypeNameFor(t)))

\* The wrappers the nested accessors make: of a field of the value a pointer
\* wrapper holds (its address), of a field of a copy (a pointer to a fresh
\* copy), of a pointer field (the pointer).
AccessorWrappers(h) ==
    { AccessorWrapper(StructT("Nested"), HeapPtr("ex", <<nNamedNested>>)),
      AccessorWrapper(StructT("Nested"),
                      FreshPtr(StructT("Nested"), h["ex"].v.fields[nNamedNested])),
      AccessorWrapper(StructT("Example"), h["ex"].v.fields[nParent]) }

\* Every wrapper evaluation meets.
ReadWrappers == CallerWrappers(heap) \cup RegisteredWrappers(ta) \cup AccessorWrappers(heap)

\* The native types a caller asks ConvertToNative for.
ReadTypes ==
    { PtrT(StructT("Example")), StructT("Example"), PtrT(StructT("Nested")),
      PtrT(StructT("Exec")), IfaceT("K8sEvent") }

\* The type handles a caller asks ConvertToType for: what Type() gave it for
\* the wrapper itself (call 1) and for a wrapper of its own, and cel-go's
\* string type.
ReadHandles(w) ==
    {TypeHandle(w, 1), TypeHandle(WrapPtr(heap, "ex", 10), 1), Handle(CelStringType, <<"cel">>)}

\* The values a wrapper is compared with.
ReadOthers ==
    { WrapPtr(heap, "ex", 10), WrapCopy(heap, "ex", 10), WrapPtr(heap, "parent", 10),
      AccessorWrapper(StructT("Nested"), HeapPtr("ex", <<nNamedNested>>)),
      AccessorWrapper(StructT("Nested"),
                      FreshPtr(StructT("Nested"), heap["ex"].v.fields[nNamedNested])),
      CelVal("string", Str("x")) }

\* The type names and identifiers looked up.
ReadNames ==
    DOMAIN tp.Structs \cup DOMAIN tp.Types \cup {<<"pkg", ".", "Missing">>}

\* The values handed to the adapter.
ReadValues ==
    { AnyOf(PtrT(StructT("Example")), HeapPtr("ex", <<>>)),
      AnyOf(PtrT(StructT("Example")), HeapPtr("parent", <<>>)),
      AnyOf(StructT("Example"), heap["ex"].v),
      AnyOf(StringT, Str("x")), CelVal("string", Str("x")), NilAny,
      WrapPtr(heap, "ex", 10), WrapPtr(heap, "en", 10) }

\* A read: nothing but the record of the call changes.
Read(op, args, result) ==
    /\ last' = [op |-> op, args |-> args, result |-> result]
    /\ UNCHANGED <<heap, ta, tp, firstReg, nops>>

\* A faulty FindStructType: it remembers a name it did not know.
FindStructTypeRemembering(structType) ==
    /\ last' = [op |-> "FindStructType", args |-> <<structType>>,
                result |-> FindStructType(tp, structType)]
    /\ tp' = IF structType \in DOMAIN tp.Types THEN tp
             ELSE RegisterType(tp, ObjectType(structType))
    /\ UNCHANGED <<heap, ta, firstReg, nops>>

\* The lookups of the host runtime in the provider.
DoFindStructType(structType) ==
    Read("FindStructType", <<structType>>, FindStructType(tp, structType))
DoFindStructFieldNames(structType) ==
    Read("FindStructFieldNames", <<structType>>, FindStructFieldNames(tp, structType))
DoFindStructFieldType(messageType, fieldName) ==
    Read("FindStructFieldType", <<messageType, fieldName>>,
         FindStructFieldType(tp, messageType, fieldName))
DoFindIdent(identName) == Read("FindIdent", <<identName>>, FindIdent(tp, identName))

\* The host runtime hands a value to the adapter.
DoNativeToValue(value) == Read("NativeToValue", <<value>>, NativeToValue(ta, value))

\* The host runtime calls the closures of the descriptor of field f on target w.
DoIsSet(w, f) == Read("IsSet", <<w, f>>, CallIsSet(heap, SetOf(tp, w)[f], w))
DoGetFrom(w, f) == Read("GetFrom", <<w, f>>, CallGetFrom(heap, SetOf(tp, w)[f], w))

\* The methods of a wrapper.  A caller of ConvertToType got the handle from
\* an earlier call of Type(), so the method's own call of Type() is the second.
DoConvertToNative(w, typeDesc) ==
    Read("ConvertToNative", <<w, typeDesc>>, ConvertToNative(w, typeDesc))
DoConvertToType(w, typeValue) ==
    Read("ConvertToType", <<w, typeValue>>, ConvertToType(w, typeValue, 2))
DoEqual(w, other) == Read("Equal", <<w, other>>, Equal(heap, w, other))
DoType(w) == Read("Type", <<w>>, TypeHandle(w, 1))

NextRead ==
    \/ \E n \in ReadNames : DoFindStructType(n)
    \/ \E n \in ReadNames : DoFindStructFieldNames(n)
    \/ \E n \in DOMAIN tp.StructFieldTypes :
          \E f \in DOMAIN tp.StructFieldTypes[n] \cup {kNick} : DoFindStructFieldType(n, f)
    \/ \E n \in {<<"v","e","r","s","i","o","n">>} \cup ReadNames : DoFindIdent(n)
    \/ \E v \in ReadValues : DoNativeToValue(v)
    \/ \E w \in RegisteredWrappers(ta) : \E f \in DOMAIN SetOf(tp, w) : DoIsSet(w, f)
    \/ \E w \in RegisteredWrappers(ta) : \E f \in DOMAIN SetOf(tp, w) : DoGetFrom(w, f)
    \/ \E w \in ReadWrappers : \E t \in ReadTypes : DoConvertToNative(w, t)
    \/ \E w \in ReadWrappers : \E t \in ReadHandles(w) : DoConvertToType(w, t)
    \/ \E w \in ReadWrappers : \E x \in ReadOthers : DoEqual(w, x)
    \/ \E w \in ReadWrappers : DoType(w)

ReadSpec == InitRead /\ [][NextRead]_vars

(***************************************************************************)
(* The passes, one step at a time: a call of registerNestedTypes or of      *)
(* newFieldsFromRaw runs as a stack of frames, one for every loop over the  *)
(* fields of a struct that has been entered and not left.  `last` holds the *)
(* run: the call about to be entered, the frames, what the pass has         *)
(* collected, and the struct types whose loop it has entered (descents).    *)
(***************************************************************************)
\* The deepest stack of frames a build is followed to.
MaxDepth == 4

\* Values whose types and whose data refer to themselves.
CyclicHeap ==
    InitHeap
    @@ ("node" :> Obj(StructT("Node"), (nNode :> HeapPtr("node", <<>>)) @@ (nX :> IntV(1))))
    @@ ("leaf" :> Obj(StructT("Node"), (nNode :> NilPtr) @@ (nX :> IntV(2))))
    @@ ("left" :> Obj(StructT("Left"), (nRight :> HeapPtr("right", <<>>)) @@ (nX :> IntV(3))))
    @@ ("right" :> Obj(StructT("Right"), (nLeft :> HeapPtr("left", <<>>))))
    @@ ("loop" :> Obj(StructT("Example"),
                 (nNested :> NestedV("", 0)) @@ (nNamedNested :> NestedV("", 0))
                 @@ (nName :> Str("loop")) @@ (nParent :> HeapPtr("loop", <<>>))
                 @@ (nFn :> NilFunc) @@ (nCreatedAt :> ZeroTime)
                 @@ (nUpdatedAt :> NilPtr) @@ (nSecret :> IntV(0))))

\* The values a pass is started on: pointers to structs and a struct by value.
PassInputs ==
    { AnyOf(PtrT(CyclicHeap[a].t), HeapPtr(a, <<>>)) :
          a \in {"ex", "loop", "en", "node", "leaf", "left", "two", "pe"} }
    \cup { AnyOf(StructT("Example"), CyclicHeap["ex"].v) }

Frame(fn, v, prefix, i) == [fn |-> fn, v |-> v, prefix |-> prefix, i |-> i]
Top(frames) == frames[Len(frames)]
Pop(frames) == SubSeq(frames, 1, Len(frames) - 1)
\* i++ in the loop of the top frame
Advance(frames) == [frames EXCEPT ![Len(frames)].i = @ + 1]

\* A frame's loop has a field left.
InLoop(run, fn) ==
    /\ run.op \in {"registerNestedTypes", "newFieldsFromRaw"}
    /\ run.call = <<>> /\ run.panic = <<>> /\ run.frames # <<>>
    /\ Top(run.frames).fn = fn
    /\ Top(run.frames).i <= NumField(Top(run.frames).v.t)

\* A faulty key of the visited set: the type as given, pointer and all.
VisitedKeyAsGiven(t) == t

\* for vt.Kind() == reflect.Ptr { vt = vt.Elem() }
VisitedKey(t) == StripPtr(t)

\* registerNestedTypes(tp, raw, visited) about to run.
WalkCall(raw) == [raw |-> raw]

\* The entry of registerNestedTypes: return on a visited type, mark it,
\* return on what is no struct, else start the loop over the fields.
Entered(run, vt, v) ==
    IF vt \in run.visited THEN [run EXCEPT !.call = <<>>]
    ELSE IF Kind(v) # "struct" THEN [run EXCEPT !.call = <<>>, !.visited = @ \cup {vt}]
    ELSE [run EXCEPT !.call = <<>>, !.visited = @ \cup {vt},
                     !.frames = Append(@, Frame("walk", v, <<>>, 1)),
                     !.descents = Append(@, v.t)]

WalkEnter ==
    /\ last.op = "registerNestedTypes" /\ last.call # <<>> /\ last.panic = <<>>
    /\ last' = Entered(last, VisitedKey(last.call[1].raw.t),
                       Indirect(heap, ValueOf(last.call[1].raw)))
    /\ UNCHANGED <<heap, ta, tp, firstReg, nops>>

\* The struct type the loop body registers for a field: none for an
\* unexported field, a nil interface, and what is not struct-like.
StructTarget(h, fieldValue, underlying) ==
    IF IsStructLike(h, fieldValue) /\ underlying # goTimeType THEN <<underlying>> ELSE <<>>
WalkTarget(h, ft, fieldValue) ==
    IF ~IsExported(ft) THEN <<>>
    ELSE IF ft.Type.k = "interface"
    THEN (IF IsNil(fieldValue) THEN <<>>
          ELSE StructTarget(h, Elem(h, fieldValue), ElemIfPtr(Elem(h, fieldValue).t)))
    ELSE StructTarget(h, fieldValue, ElemIfPtr(ft.Type))

\* The provider after the loop body registered nestedFields under both names.
RegisteredNested(p, underlying, nestedFields) ==
    RegisterNestedIfAbsent(
        RegisterNestedIfAbsent(p, wrapperTypeNameFor(underlying), nestedFields),
        typeNameOf(underlying), nestedFields)

\* The body of the loop for a struct-like field: build the descriptors of a
\* zero value, register them under both names, call registerNestedTypes.
WalkRegistered(run, zeroPtr, nested) ==
    IF ~nested.ok THEN [run EXCEPT !.panic = nested.panic]
    ELSE [run EXCEPT !.frames = Advance(@), !.call = <<WalkCall(zeroPtr)>>]

\* reflect.New(underlying).Interface()
ZeroPtr(underlying) == AnyOf(PtrT(underlying), FreshPtr(underlying, ZeroOf(underlying)))

WalkFieldOf(target, p) ==
    IF target = <<>>
    THEN /\ last' = [last EXCEPT !.frames = Advance(@)]
         /\ tp' = tp
         /\ firstReg' = firstReg
    ELSE /\ last' = WalkRegistered(last, ZeroPtr(target[1]),
                                   newFieldsFromRaw(heap, ZeroPtr(target[1])))
         /\ tp' = p
         /\ firstReg' = FirstRegAfter(firstReg, p)

\* The provider after the body of the loop for a field with this target.
WalkProvider(target, nested) ==
    IF target = <<>> \/ ~nested.ok THEN tp
    ELSE RegisteredNested(tp, target[1], nested.m)

WalkFieldTo(target) ==
    WalkFieldOf(target,
                WalkProvider(target, IF target = <<>> THEN Built(<<>>)
                                     ELSE newFieldsFromRaw(heap, ZeroPtr(target[1]))))

WalkField ==
    /\ InLoop(last, "walk")
    /\ WalkFieldTo(WalkTarget(heap, StructFields(Top(last.frames).v.t)[Top(last.frames).i],
                              FieldAt(Top(last.frames).v, Top(last.frames).i)))
    /\ UNCHANGED <<heap, ta, nops>>

\* The loop of the top frame is over.
AtEnd(run, fn) ==
    /\ run.op \in {"registerNestedTypes", "newFieldsFromRaw"}
    /\ run.call = <<>> /\ run.panic = <<>> /\ run.frames # <<>>
    /\ Top(run.frames).fn = fn
    /\ Top(run.frames).i > NumField(Top(run.frames).v.t)

\* The end of the loop of registerNestedTypes: the call returns to its caller.
WalkReturn ==
    /\ AtEnd(last, "walk")
    /\ last' = [last EXCEPT !.frames = Pop(@)]
    /\ UNCHANGED <<heap, ta, tp, firstReg, nops>>

\* processImmediateFields(fields, v) or processPromotedFields(fields, v,
\* prefix, true) about to run.
BuildCall(fn, v, prefix) == [fn |-> fn, v |-> v, prefix |-> prefix]

\* The entry of both: v = v.Elem() for a pointer, return on what is no struct.
BuildEntered(run, c, v) ==
    IF Kind(v) # "struct" THEN [run EXCEPT !.call = <<>>]
    ELSE [run EXCEPT !.call = <<>>,
                     !.frames = Append(@, Frame(c.fn, v, c.prefix, 1)),
                     !.descents = Append(@, v.t)]

BuildEnter ==
    /\ last.op = "newFieldsFromRaw" /\ last.call # <<>> /\ last.panic = <<>>
    /\ Len(last.frames) < MaxDepth
    /\ last' = BuildEntered(last, last.call[1], Indirect(heap, last.call[1].v))
    /\ UNCHANGED <<heap, ta, tp, firstReg, nops>>

\* The nested branch of both loops: the descriptor of the field, and the
\* call of processPromotedFields for an anonymous field.
BuildNested(ft, fieldValue, underlying, fullPath) ==
    [last EXCEPT !.fields = AddNested(@, toSnakeCase(ft.Name), underlying, fullPath),
                 !.frames = Advance(@),
                 !.call = IF ft.Anonymous
                          THEN <<BuildCall("promoted", fieldValue, fullPath)>> ELSE <<>>]

\* The leaf branch of processImmediateFields.
BuildImmediateLeaf(r) ==
    IF r.ok THEN [last EXCEPT !.fields = r.m, !.frames = Advance(@)]
    ELSE [last EXCEPT !.panic = r.panic]

\* The body of the loop of processImmediateFields once the interface is resolved.
BuildImmediateField(f, ft, fieldValue, underlying) ==
    IF IsStructLike(heap, fieldValue) /\ underlying # goTimeType
    THEN BuildNested(ft, fieldValue, underlying, ft.Name)
    ELSE BuildImmediateLeaf(ImmediateLeaf(last.fields, f.v.t, ft, toSnakeCase(ft.Name)))

BuildImmediateValue(f, ft, fieldValue) ==
    IF ~IsExported(ft) \/ Kind(fieldValue) = "func"
    THEN [last EXCEPT !.frames = Advance(@)]
    ELSE IF ft.Type.k = "interface"
    THEN (IF IsNil(fieldValue) THEN [last EXCEPT !.frames = Advance(@)]
          ELSE BuildImmediateField(f, ft, Elem(heap, fieldValue),
                                   ElemIfPtr(Elem(heap, fieldValue).t)))
    ELSE BuildImmediateField(f, ft, fieldValue, ElemIfPtr(ft.Type))

BuildImmediate ==
    /\ InLoop(last, "immediate")
    /\ last' = BuildImmediateValue(Top(last.frames),
                                   StructFields(Top(last.frames).v.t)[Top(last.frames).i],
                                   FieldAt(Top(last.frames).v, Top(last.frames).i))
    /\ UNCHANGED <<heap, ta, tp, firstReg, nops>>

\* The body of the loop of processPromotedFields.
BuildPromotedValue(f, ft, fieldValue, fullPath) ==
    IF ~IsExported(ft) THEN [last EXCEPT !.frames = Advance(@)]
    ELSE IF IsStructLike(heap, fieldValue) /\ ElemIfPtr(ft.Type) # goTimeType
    THEN BuildNested(ft, fieldValue, ElemIfPtr(ft.Type), fullPath)
    ELSE IF Kind(fieldValue) = "func" THEN [last EXCEPT !.frames = Advance(@)]
    ELSE [last EXCEPT !.fields = PromotedLeaf(@, ft, toSnakeCase(ft.Name), fullPath),
                      !.frames = Advance(@)]

BuildPromoted ==
    /\ InLoop(last, "promoted")
    /\ last' = BuildPromotedValue(
                   Top(last.frames),
                   StructFields(Top(last.frames).v.t)[Top(last.frames).i],
                   FieldAt(Top(last.frames).v, Top(last.frames).i),
                   Top(last.frames).prefix \o <<".">>
                       \o StructFields(Top(last.frames).v.t)[Top(last.frames).i].Name)
    /\ UNCHANGED <<heap, ta, tp, firstReg, nops>>

\* The end of a loop of the build: the call returns to its caller.
BuildReturn ==
    /\ AtEnd(last, "immediate") \/ AtEnd(last, "promoted")
    /\ last' = [last EXCEPT !.frames = Pop(@)]
    /\ UNCHANGED <<heap, ta, tp, firstReg, nops>>

\* registerNestedTypes(tp, raw, map[reflect.Type]struct{}{}) is called.
WalkOf(raw) ==
    [op |-> "registerNestedTypes", of |-> raw, call |-> <<WalkCall(raw)>>, frames |-> <<>>,
     visited |-> {}, descents |-> <<>>, panic |-> <<>>]

\* newFieldsFromRaw(raw) is called: fields := map[string]*types.FieldType{},
\* v = v.Elem() for a pointer, processImmediateFields(fields, v).
BuildOf(h, raw) ==
    [op |-> "newFieldsFromRaw", of |-> raw,
     call |-> <<BuildCall("immediate", Indirect(h, ValueOf(raw)), <<>>)>>,
     frames |-> <<>>, fields |-> <<>>, descents |-> <<>>, panic |-> <<>>]

InitPass ==
    /\ heap = CyclicHeap
    /\ ta = NewTypeAdapter
    /\ tp = NewTypeProvider
    /\ firstReg = <<>>
    /\ nops = 0
    /\ \E raw \in PassInputs : last = WalkOf(raw) \/ last = BuildOf(heap, raw)

NextPass ==
    \/ WalkEnter
    \/ WalkField
    \/ WalkReturn
    \/ BuildEnter
    \/ BuildImmediate
    \/ BuildPromoted
    \/ BuildReturn

\* The pass has nothing left to run: it returned or panicked, or the build
\* has reached the depth it is followed to.
PassEnded ==
    \/ last.panic # <<>>
    \/ last.call = <<>> /\ last.frames = <<>>
    \/ last.op = "newFieldsFromRaw" /\ last.call # <<>> /\ Len(last.frames) >= MaxDepth

\* A pass that has not ended keeps running: the code runs on one goroutine
\* that nothing blocks.
PassSpec == InitPass /\ [][NextPass]_vars /\ ([]<>PassEnded \/ []<><<NextPass>>_vars)

(***************************************************************************)
(* The pure functions on their own: an input is drawn, the function is      *)
(* applied to it, and `last` holds the argument and the result.             *)
(***************************************************************************)
\* The longest field name, in characters, and the most pointers on a type.
MaxNameLen == 3
MaxPtrDepth == 2

\* The characters of the names: ASCII letters of both cases, '_', a digit,
\* and the two-byte letters of both cases; each as its bytes.
NameChars == {<<"a">>, <<"B">>, <<"_">>, <<"1">>, LowerE, UpperE}

\* The strings of n characters, and of at most n.
RECURSIVE NamesOfLen(_)
NamesOfLen(n) ==
    IF n = 0 THEN {<<>>} ELSE {s \o c : s \in NamesOfLen(n - 1), c \in NameChars}
NameInputs == UNION {NamesOfLen(n) : n \in 1..MaxNameLen}

\* t behind n pointers.
RECURSIVE PtrTo(_, _)
PtrTo(t, n) == IF n = 0 THEN t ELSE PtrT(PtrTo(t, n - 1))

\* The declared types of the fields celTypeForField is applied to.
ScalarKinds ==
    {"string", "int", "int8", "int16", "int32", "int64", "uint", "uint8", "uint16",
     "uint32", "uint64", "float32", "float64", "bool", "func", "map", "chan"}
FieldTypeInputs ==
    {PtrTo(t, n) : n \in 0..MaxPtrDepth,
                   t \in {[k |-> k] : k \in ScalarKinds}
                         \cup {SliceT(Uint8T), SliceT(StringT), SliceT(IntT), SliceT(StructT("Nested")),
                               goTimeType, StructT("Nested"), IfaceT("K8sEvent")}}

InitPure ==
    /\ heap = InitHeap
    /\ ta = NewTypeAdapter
    /\ tp = NewTypeProvider
    /\ firstReg = <<>>
    /\ nops = 0
    /\ \/ \E s \in NameInputs : last = [op |-> "input", fn |-> "toSnakeCase", arg |-> s]
       \/ \E t \in FieldTypeInputs :
             last = [op |-> "input", fn |-> "celTypeForField", arg |-> SF(<<"F">>, t, FALSE)]

DoToSnakeCase ==
    /\ last.op = "input" /\ last.fn = "toSnakeCase"
    /\ last' = [op |-> "toSnakeCase", arg |-> last.arg, result |-> toSnakeCase(last.arg)]
    /\ UNCHANGED <<heap, ta, tp, firstReg, nops>>

DoCelTypeForField ==
    /\ last.op = "input" /\ last.fn = "celTypeForField"
    /\ last' = [op |-> "celTypeForField", arg |-> last.arg,
                result |-> celTypeForField(last.arg)]
    /\ UNCHANGED <<heap, ta, tp, firstReg, nops>>

NextPure ==
    \/ DoToSnakeCase
    \/ DoCelTypeForField

PureSpec == InitPure /\ [][NextPure]_vars

(***************************************************************************)
(* The descriptors at work: the registries hold what one or two             *)
(* RegisterObject calls left, and then NewFields is called on an object, or *)
(* the closures of an auto-derived descriptor are called on a target: a     *)
(* wrapper of any object of the program, or something that is no wrapper of *)
(* a struct at all.  `last` holds the call and what it gave.                *)
(***************************************************************************)
\* The objects of the program: those of InitHeap, and values of the same
\* types whose pointer and interface fields are nil or hold a func.
AccessHeap ==
    InitHeap
    @@ ("en0" :> Obj(StructT("Enriched"), (nEvent :> NilIface)))
    @@ ("enf" :> Obj(StructT("Enriched"), (nEvent :> IfaceV(FuncT, FnV("f2")))))
    @@ ("pe0" :> Obj(StructT("PtrEmb"), (nNested :> NilPtr) @@ (nX :> IntV(2))))
    @@ ("outer" :> Obj(StructT("Outer"),
                       (nInner :> StructV((nFn :> FnV("f3")) @@ (nID :> Str("i"))))))

\* The registrations made before the descriptors are used.
AccessSetups ==
    { <<Call(a, FALSE, NoFields)>> :
          a \in {"ex", "parent", "en", "en0", "enf", "pe", "pe0", "shadow", "own", "outer",
                 "ap"} }
    \cup { <<Call("nested", FALSE, Fields(ManualNested))>>,
           <<Call("nested", FALSE, Fields(ManualNested)), Call("ex", FALSE, NoFields)>>,
           <<Call("ex", FALSE, NoFields), Call("nested", FALSE, Fields(ManualNested))>> }

InitAccess ==
    /\ heap = AccessHeap
    /\ \E s \in AccessSetups :
          /\ ta = Populated(AccessHeap, s).ta
          /\ tp = Populated(AccessHeap, s).tp
          /\ last = [op |-> "populated", calls |-> s, panic |-> Populated(AccessHeap, s).panic]
          /\ nops = Len(s)
    /\ firstReg = FirstRegAfter(<<>>, tp)

\* The objects NewFields is called on, by a pointer.
AccessObjects == {a \in DOMAIN heap : heap[a].t.k = "struct" /\ heap[a].t # goTimeType}

\* The targets the closures are called on.
AccessTargets ==
    { WrapPtr(heap, a, 10) : a \in AccessObjects }
    \cup { WrapCopy(heap, "ex", 10), WrapCopy(heap, "parent", 10),
           AccessorWrapper(StructT("Example"), heap["ex"].v.fields[nParent]),
           NilAny, AnyOf(StringT, Str("x")),
           ObjectW(PtrT(StructT("Example")), NilPtr, NoType, 10),
           NewObject(IfaceT("K8sEvent"), NilIface, 10),
           DynObject(NilAny, wrapperTypeNameFor(StructT("Nested")),
                     ObjectType(wrapperTypeNameFor(StructT("Nested")))) }

\* The auto-derived descriptors the provider holds: [name, field].
AccessDescriptors ==
    { nf \in UNION { {<<n, f>> : f \in DOMAIN tp.Structs[n]} : n \in DOMAIN tp.Structs } :
          tp.Structs[nf[1]][nf[2]].fn # "manual" }

\* Whether the closures of d end in a panic on target: the path is looked up
\* through a nil embedded pointer.
AccessorPanics(h, d, target) ==
    /\ extractRawValue(target).valid
    /\ getNestedField(h, extractRawValue(target), d.parts) = PanicRV

\* objt := &Object[T]{Raw: &obj}; NewFields(objt)
DoNewFields ==
    /\ last.op = "populated"
    /\ \E a \in AccessObjects :
          last' = [op |-> "NewFields", addr |-> a,
                   result |-> NewFields(heap, WrapPtr(heap, a, 10))]
    /\ UNCHANGED <<heap, ta, tp, firstReg, nops>>

\* What a call of a closure of descriptor f of name n on target leaves in `last`.
Accessed(op, n, f, target, result) ==
    [op |-> op, name |-> n, field |-> f, target |-> target, d |-> tp.Structs[n][f],
     panic |-> AccessorPanics(heap, tp.Structs[n][f], target), result |-> result]

\* tp.Structs[n][f].IsSet(target)
DoAccessIsSet ==
    /\ last.op = "populated"
    /\ \E nf \in AccessDescriptors : \E w \in AccessTargets :
          last' = Accessed("IsSet", nf[1], nf[2], w,
                           CallIsSet(heap, tp.Structs[nf[1]][nf[2]], w))
    /\ UNCHANGED <<heap, ta, tp, firstReg, nops>>

\* tp.Structs[n][f].GetFrom(target)
DoAccessGetFrom ==
    /\ last.op = "populated"
    /\ \E nf \in AccessDescriptors : \E w \in AccessTargets :
          last' = Accessed("GetFrom", nf[1], nf[2], w,
                           CallGetFrom(heap, tp.Structs[nf[1]][nf[2]], w))
    /\ UNCHANGED <<heap, ta, tp, firstReg, nops>>

NextAccess ==
    \/ DoNewFields
    \/ DoAccessIsSet
    \/ DoAccessGetFrom

AccessSpec == InitAccess /\ [][NextAccess]_vars

(***************************************************************************)
(* What the Go declarations say, for the properties below: the fields a     *)
(* struct type exposes and what Go's own field selection yields.            *)
(***************************************************************************)
IsStructType(t) == t.k = "struct" /\ t # goTimeType

\* The struct objects of the program.
StructObjects == {a \in DOMAIN heap : IsStructType(heap[a].t)}

\* The exposed leaf fields of struct type t: exported, not callable, declared
\* by t or promoted from an anonymous embedded struct; [name, path].
RECURSIVE ExposedLeaves(_)
ExposedLeaves(t) ==
    UNION { LET ft == StructFields(t)[i]
            IN IF ~IsExported(ft) \/ ft.Type.k = "func" THEN {}
               ELSE IF IsStructType(ElemIfPtr(ft.Type))
               THEN (IF ft.Anonymous
                     THEN {[name |-> l.name, path |-> <<ft.Name>> \o l.path] :
                              l \in ExposedLeaves(ElemIfPtr(ft.Type))}
                     ELSE {})
               ELSE {[name |-> toSnakeCase(ft.Name), path |-> <<ft.Name>>]}
          : i \in 1..NumField(t) }

\* Whether field i of t is a directly declared exposed leaf.
DirectLeaf(t, i) ==
    /\ IsExported(StructFields(t)[i])
    /\ StructFields(t)[i].Type.k \notin {"func", "interface"}
    /\ ~IsStructType(ElemIfPtr(StructFields(t)[i].Type))

\* Every name the fields of t can claim: its exported non-callable fields and
\* what its anonymous embedded structs promote.
RECURSIVE AllNames(_)
AllNames(t) ==
    UNION { LET ft == StructFields(t)[i]
            IN IF ~IsExported(ft) \/ ft.Type.k = "func" THEN {}
               ELSE {toSnakeCase(ft.Name)}
                    \cup (IF ft.Anonymous /\ IsStructType(ElemIfPtr(ft.Type))
                          THEN AllNames(ElemIfPtr(ft.Type)) ELSE {})
          : i \in 1..NumField(t) }

\* Whether field i of t claims name n, itself or by promotion.
TakesName(t, i, n) ==
    LET ft == StructFields(t)[i]
    IN /\ IsExported(ft) /\ ft.Type.k # "func"
       /\ (\/ toSnakeCase(ft.Name) = n
           \/ (ft.Anonymous /\ IsStructType(ElemIfPtr(ft.Type))
               /\ n \in AllNames(ElemIfPtr(ft.Type))))

\* The path of the first field, in declaration order, that claims name n.
RECURSIVE FirstPath(_, _)
FirstPath(t, n) ==
    LET i == CHOOSE k \in 1..NumField(t) :
                 TakesName(t, k, n) /\ \A j \in 1..(k - 1) : ~TakesName(t, j, n)
        ft == StructFields(t)[i]
    IN IF toSnakeCase(ft.Name) = n THEN <<ft.Name>>
       ELSE <<ft.Name>> \o FirstPath(ElemIfPtr(ft.Type), n)

\* Every anonymous field of t, at every depth, embeds a struct by value, and
\* no field is of interface type.
RECURSIVE ByValueEmbedding(_)
ByValueEmbedding(t) ==
    \A i \in 1..NumField(t) :
        /\ StructFields(t)[i].Type.k # "interface"
        /\ (StructFields(t)[i].Anonymous =>
               /\ IsStructType(StructFields(t)[i].Type)
               /\ ByValueEmbedding(StructFields(t)[i].Type))

\* Go's selection v.f1.f2...: [ok, t, v]; it goes through pointers and
\* interface values and fails on a nil one.
RECURSIVE GoSelect(_, _, _, _)
GoSelect(h, t, v, path) ==
    IF path = <<>> THEN [ok |-> TRUE, t |-> t, v |-> v]
    ELSE IF t.k = "ptr"
    THEN (IF v = NilPtr THEN [ok |-> FALSE]
          ELSE GoSelect(h, t.elem, ValueAt(h[v.base].v, v.path), path))
    ELSE IF t.k = "interface"
    THEN (IF v = NilIface THEN [ok |-> FALSE] ELSE GoSelect(h, v.t, v.v, path))
    ELSE GoSelect(h, StructFields(t)[FieldIndex(t, Head(path))].Type,
                  v.fields[Head(path)], Tail(path))

\* The names under which RegisterObject registers the type of wrapper objt.
RootNames(objt) == {TypeName(objt.celType), typeNameOf(StripPtr(objt.T))}

\* The last step was a RegisterObject call that returned.
Registered1(addr) ==
    last.op = "RegisterObject" /\ last.call.addr = addr /\ last.panic = <<>>

ExplicitlyRegistered(l, n) ==
    \/ (l.op = "RegisterStructType" /\ l.name = n)
    \/ (l.op = "RegisterObject" /\ n \in RootNames(l.objt))

LeafDescriptors(m) == {n \in DOMAIN m : m[n].fn = "leaf" /\ m[n].Type.kind # "object"}

\* C2: for every struct whose exposed leaf fields have pairwise distinct
\* normalized names, NewFields returns exactly one leaf descriptor per exposed
\* leaf field, under that field's name and reading that field.
C2_OneLeafDescriptorPerField ==
    \A a \in StructObjects :
        (/\ \A i \in 1..NumField(heap[a].t) : StructFields(heap[a].t)[i].Type.k # "interface"
         /\ Cardinality({l.name : l \in ExposedLeaves(heap[a].t)})
               = Cardinality(ExposedLeaves(heap[a].t)))
        => /\ NewFields(heap, WrapPtr(heap, a, 0)).ok
           /\ LeafDescriptors(NewFields(heap, WrapPtr(heap, a, 0)).m)
                 = {l.name : l \in ExposedLeaves(heap[a].t)}
           /\ \A l \in ExposedLeaves(heap[a].t) :
                 NewFields(heap, WrapPtr(heap, a, 0)).m[l.name].parts = l.path

(***************************************************************************)
(* C3                                                                       *)
(***************************************************************************)
IsCollision(panic) == panic # <<>> /\ panic[1] = "xcel: field name collision"

\* C3 as stated: RegisterObject of a struct in which two exposed leaf fields
\* normalize to the same name ends in the field-name-collision panic.
C3_EveryCollisionAborts ==
    (/\ last.op = "RegisterObject"
     /\ Cardinality({l.name : l \in ExposedLeaves(heap[last.call.addr].t)})
           < Cardinality(ExposedLeaves(heap[last.call.addr].t)))
    => IsCollision(last.panic)

\* The names two directly declared leaf fields of t share.
DirectClashes(t) ==
    {toSnakeCase(StructFields(t)[i].Name) : i \in
        {k \in 1..NumField(t) :
            /\ DirectLeaf(t, k)
            /\ \E j \in 1..(k - 1) :
                  /\ DirectLeaf(t, j)
                  /\ toSnakeCase(StructFields(t)[j].Name) = toSnakeCase(StructFields(t)[k].Name)}}

\* A directly declared leaf field of t has a name an earlier field claims.
DirectLeafOnTakenName(t) ==
    \E k \in 1..NumField(t) :
        /\ DirectLeaf(t, k)
        /\ \E j \in 1..(k - 1) : TakesName(t, j, toSnakeCase(StructFields(t)[k].Name))

\* What C3, amended, says of the build r of a value of struct type t.
CollisionRule(t, r) ==
    /\ (DirectClashes(t) # {}
           => IsCollision(r.panic) /\ r.panic[2] \in DirectClashes(t))
    /\ (~r.ok => IsCollision(r.panic) /\ DirectLeafOnTakenName(t))
    /\ (r.ok /\ ByValueEmbedding(t)
           => \A n \in AllNames(t) :
                 n \in DOMAIN r.m /\ r.m[n].parts = FirstPath(t, n))

\* C3, amended: the build fails with the field-name-collision panic whenever
\* two directly declared leaf fields normalize to the same name, and fails
\* only when a directly declared leaf field has a name an earlier field
\* (declared or promoted) claims; a field promoted from a by-value embedded
\* struct onto a name already claimed is skipped silently, and the descriptor
\* kept under every name is the one of the first field that claims it.
C3_DirectCollisionAbortsPromotedIsSkipped ==
    last.op = "RegisterObject"
    => CollisionRule(heap[last.call.addr].t, NewFields(heap, last.objt))

\* TwoEmb embeds A and B, which both declare ID: RegisterObject returned, and
\* "id" reads A.ID.
C3_Witness ==
    /\ Registered1("two")
    /\ tp.Structs[wrapperTypeName(PtrT(StructT("TwoEmb")))][toSnakeCase(nID)].parts = <<nA, nID>>

(***************************************************************************)
(* C4                                                                       *)
(***************************************************************************)
\* The set registered is the automatic set overlaid by the caller's.
IsOverlay(registered, auto, manual) ==
    /\ DOMAIN registered = DOMAIN auto \cup DOMAIN manual
    /\ \A f \in DOMAIN registered :
          registered[f] = IF f \in DOMAIN manual THEN manual[f] ELSE auto[f]

\* C4: after RegisterObject(ta, tp, w, t, manual) the set registered for the
\* type, under both of its names and for both lookups, has the keys of the
\* automatic set and of manual; a name of manual has the caller's descriptor,
\* every other name the automatic one.
C4_ManualOverridesWin ==
    (last.op = "RegisterObject" /\ last.panic = <<>>) =>
        \A n \in RootNames(last.objt) :
            /\ tp.StructFieldTypes[n] = tp.Structs[n]
            /\ IsOverlay(tp.Structs[n], NewFields(heap, last.objt).m, last.call.fields.m)

\* Example was registered with hand-written "name" (also derived) and "nick"
\* (not derived): both are the caller's, "toto" is the automatic one.
C4_Witness ==
    /\ Registered1("ex")
    /\ last.call.fields = Fields(ManualExample)
    /\ kName \in DOMAIN NewFields(heap, last.objt).m
    /\ kNick \notin DOMAIN NewFields(heap, last.objt).m
    /\ tp.Structs[wrapperTypeName(PtrT(StructT("Example")))][kName] = ManualExample[kName]
    /\ tp.Structs[wrapperTypeName(PtrT(StructT("Example")))][kNick] = ManualExample[kNick]
    /\ tp.Structs[wrapperTypeName(PtrT(StructT("Example")))][kToto].fn = "leaf"

(***************************************************************************)
(* C5                                                                       *)
(***************************************************************************)
\* The wrappers a caller can make of object a: of a pointer to it, of a copy.
WrappersOf(h, a) == {WrapPtr(h, a, 0), WrapCopy(h, a, 0)}

\* The objects of the program of the same struct type as object a.
SameType(a) == {b \in StructObjects : heap[b].t = heap[a].t}

\* The names under which a set is registered for the type of object a.
NamesOf(a) == RootNames(WrapPtr(heap, a, 0)) \cap DOMAIN tp.Structs

\* The presence predicate of d on wrapper w of object a agrees with the
\* pointer-to-struct or struct-valued field that d reads.
NestedPresenceAgrees(a, d, w, sel) ==
    sel.ok =>
        /\ (sel.t.k = "ptr" /\ IsStructType(sel.t.elem))
           => (CallIsSet(heap, d, w) <=> sel.v # NilPtr)
        /\ IsStructType(sel.t) => CallIsSet(heap, d, w)

NestedPresenceOfSet(a, m) ==
    \A n \in DOMAIN m : \A w \in WrappersOf(heap, a) :
        m[n].fn # "manual"
        => \A sel \in {GoSelect(heap, heap[a].t, heap[a].v, m[n].parts)} :
               NestedPresenceAgrees(a, m[n], w, sel)

\* C5: the automatic presence predicate of a pointer-to-struct field is false
\* exactly when the pointer is nil when it is asked, that of a struct-valued
\* field is always true, whatever the pointer was in the instance the
\* descriptors were built from (the sets built from every object of the type,
\* and the sets registered for it).
C5_NestedPresenceFollowsPointer ==
    \A a \in StructObjects :
        /\ \A b \in SameType(a) : \A r \in {NewFields(heap, WrapPtr(heap, b, 0))} :
              NestedPresenceOfSet(a, r.m)
        /\ \A nm \in NamesOf(a) : NestedPresenceOfSet(a, tp.Structs[nm])

\* Example was registered while Parent was set, Parent is nil now, and the
\* registered predicate of "parent" answers false.
C5_Witness ==
    /\ wrapperTypeName(PtrT(StructT("Example"))) \in DOMAIN tp.Structs
    /\ toSnakeCase(nParent) \in DOMAIN tp.Structs[wrapperTypeName(PtrT(StructT("Example")))]
    /\ tp.Structs[wrapperTypeName(PtrT(StructT("Example")))][toSnakeCase(nParent)].fn = "nested"
    /\ heap["ex"].v.fields[nParent] = NilPtr
    /\ ~CallIsSet(heap, tp.Structs[wrapperTypeName(PtrT(StructT("Example")))][toSnakeCase(nParent)],
                  WrapPtr(heap, "ex", 0))

(***************************************************************************)
(* C6                                                                       *)
(***************************************************************************)
\* What a pointer into the heap points to.
Pointee(h, p) == ValueAt(h[p.base].v, p.path)

\* time.Time.IsZero: the instant is January 1, year 1, 00:00:00 UTC.
IsZeroInstant(tv) == tv.sec = 0

\* The presence predicate of d on wrapper w agrees with the timestamp field
\* that d reads.
TimestampPresenceAgrees(d, w, sel) ==
    sel.ok =>
        /\ sel.t = goTimeType => (CallIsSet(heap, d, w) <=> sel.v # ZeroTime)
        /\ sel.t = PtrT(goTimeType)
           => (CallIsSet(heap, d, w)
                 <=> (sel.v # NilPtr /\ ~IsZeroInstant(Pointee(heap, sel.v))))

TimestampPresenceOfSet(a, m) ==
    \A n \in DOMAIN m : \A w \in WrappersOf(heap, a) :
        m[n].fn # "manual"
        => \A sel \in {GoSelect(heap, heap[a].t, heap[a].v, m[n].parts)} :
               TimestampPresenceAgrees(m[n], w, sel)

\* C6: the presence predicate of a time.Time field is false for the zero
\* value and true otherwise; that of a *time.Time field is false for nil, false
\* when the pointee is the zero instant, and true otherwise.
C6_TimestampPresence ==
    \A a \in StructObjects :
        /\ \A b \in SameType(a) : \A r \in {NewFields(heap, WrapPtr(heap, b, 0))} :
              TimestampPresenceOfSet(a, r.m)
        /\ \A nm \in NamesOf(a) : TimestampPresenceOfSet(a, tp.Structs[nm])

(***************************************************************************)
(* C7                                                                       *)
(***************************************************************************)
IsPrimitive(t) ==
    \/ t.k \in {"string", "int", "int64", "uint64", "float64", "bool"}
    \/ (t.k = "slice" /\ t.elem.k \in {"uint8", "string"})

\* The accessor of d on w returns the selected value sel, and the adapter makes
\* the CEL value of its kind and content of it.
RoundTrips(d, w, sel) ==
    /\ CallGetFrom(heap, d, w) = Got(AnyOf(sel.t, sel.v))
    /\ NativeToValue(ta, CallGetFrom(heap, d, w).v) = CelVal(sel.t.k, sel.v)

PrimitiveRoundTrips(m, l, w, sel) ==
    (/\ sel.ok /\ IsPrimitive(sel.t)
     /\ l.name \in DOMAIN m /\ m[l.name].fn = "leaf" /\ m[l.name].parts = l.path)
    => RoundTrips(m[l.name], w, sel)

\* C7: for a registered type, the automatic accessor of every primitive field
\* (declared or promoted) returns, on a wrapper of a value of the type, the
\* value Go's own selection of that field yields, and the adapter turns it
\* into the CEL value of the same kind and content.
C7_PrimitiveRoundTrip ==
    \A a \in StructObjects : \A nm \in RootNames(WrapPtr(heap, a, 0)) \cap DOMAIN tp.Structs :
        \A l \in ExposedLeaves(heap[a].t) : \A w \in WrappersOf(heap, a) :
            PrimitiveRoundTrips(tp.Structs[nm], l, w,
                                GoSelect(heap, heap[a].t, heap[a].v, l.path))

\* AllPrimitives is registered; "tags" reads the string list of the value and
\* "age" its integer.
C7_Witness ==
    /\ Registered1("ap")
    /\ CallGetFrom(heap, tp.Structs[wrapperTypeName(PtrT(StructT("AllPrimitives")))][toSnakeCase(nTags)],
                   WrapPtr(heap, "ap", 0))
          = Got(AnyOf(SliceT(StringT), SliceV(<<"a", "b">>)))
    /\ CallGetFrom(heap, tp.Structs[wrapperTypeName(PtrT(StructT("AllPrimitives")))][toSnakeCase(nAge)],
                   WrapPtr(heap, "ap", 0))
          = Got(AnyOf(IntT, IntV(42)))

(***************************************************************************)
(* C8                                                                       *)
(***************************************************************************)
\* The directly declared primitive leaf fields of struct type t.
PrimitiveLeaves(t) ==
    {StructFields(t)[k] : k \in {j \in 1..NumField(t) :
                                    DirectLeaf(t, j) /\ IsPrimitive(StructFields(t)[j].Type)}}

\* Leaf k of the struct field ft of object a is read at the parent level, under
\* its own name, by an automatic descriptor of the parent's set m.
AtParentLevel(m, a, w, ft, k) ==
    /\ toSnakeCase(k.Name) \in DOMAIN m
    /\ m[toSnakeCase(k.Name)].fn = "leaf"
    /\ CallGetFrom(heap, m[toSnakeCase(k.Name)], w)
          = Got(AnyOf(k.Type, GoSelect(heap, heap[a].t, heap[a].v, <<ft.Name, k.Name>>).v))

\* Leaf k of the struct field ft of object a is read through the nested object:
\* the parent's descriptor of ft gives a wrapper, the set registered for its
\* type holds the leaf, and the leaf's automatic accessor reads it.
ThroughNestedObject(m, a, w, ft, k) ==
    /\ toSnakeCase(ft.Name) \in DOMAIN m
    /\ m[toSnakeCase(ft.Name)].fn = "nested"
    /\ m[toSnakeCase(ft.Name)].nestedTypeName \in DOMAIN tp.Structs
    /\ CallGetFrom(heap, m[toSnakeCase(ft.Name)], w).err = <<>>
    /\ LET nt == tp.Structs[m[toSnakeCase(ft.Name)].nestedTypeName]
           o == NativeToValue(ta, CallGetFrom(heap, m[toSnakeCase(ft.Name)], w).v)
       IN /\ toSnakeCase(k.Name) \in DOMAIN nt
          /\ (nt[toSnakeCase(k.Name)].fn # "manual"
                 => CallGetFrom(heap, nt[toSnakeCase(k.Name)], o)
                       = Got(AnyOf(k.Type, GoSelect(heap, heap[a].t, heap[a].v,
                                                    <<ft.Name, k.Name>>).v)))

\* No automatic descriptor of m reads through field ft.
NoPathThrough(m, ft) ==
    \A n \in DOMAIN m :
        m[n].fn # "manual" => ~(Len(m[n].parts) > 1 /\ m[n].parts[1] = ft.Name)

\* The exported by-value struct fields of t: anonymous (E) and named (F).
EmbeddedStructs(t) ==
    {StructFields(t)[i] : i \in {j \in 1..NumField(t) :
        /\ IsExported(StructFields(t)[j]) /\ IsStructType(StructFields(t)[j].Type)
        /\ StructFields(t)[j].Anonymous}}
NamedStructs(t) ==
    {StructFields(t)[i] : i \in {j \in 1..NumField(t) :
        /\ IsExported(StructFields(t)[j]) /\ IsStructType(StructFields(t)[j].Type)
        /\ ~StructFields(t)[j].Anonymous}}

\* C8 as stated: after RegisterObject of a struct with an anonymous embedded
\* struct E and a named struct field F, every leaf of E is read at the parent
\* level under its own name and through E's nested object; the leaves of F are
\* read through F's nested object and no parent descriptor reads through F.
C8_EveryEmbeddedLeafAtParentLevel ==
    (/\ last.op = "RegisterObject" /\ last.panic = <<>>
     /\ EmbeddedStructs(heap[last.call.addr].t) # {}
     /\ NamedStructs(heap[last.call.addr].t) # {})
    => LET a == last.call.addr
           m == tp.Structs[TypeName(last.objt.celType)]
       IN /\ \A ft \in EmbeddedStructs(heap[a].t) : \A k \in PrimitiveLeaves(ft.Type) :
                /\ AtParentLevel(m, a, last.objt, ft, k)
                /\ ThroughNestedObject(m, a, last.objt, ft, k)
          /\ \A ft \in NamedStructs(heap[a].t) :
                /\ NoPathThrough(m, ft)
                /\ \A k \in PrimitiveLeaves(ft.Type) :
                      ThroughNestedObject(m, a, last.objt, ft, k)

\* C8, amended: after RegisterObject of a struct, for every anonymous by-value
\* embedded struct E and every named by-value struct field F of it: a leaf of E
\* is read at the parent level under its own name when E's leaf is the first
\* field of the parent that claims the name (an earlier field of that name
\* keeps it), and through the nested object of E when E's field is the first
\* to claim E's name; the leaves of F are read through the nested object of F
\* and no parent descriptor reads through F.
C8_UnshadowedEmbeddedLeafAtParentLevel ==
    (last.op = "RegisterObject" /\ last.panic = <<>>)
    => LET a == last.call.addr
           m == tp.Structs[TypeName(last.objt.celType)]
       IN /\ \A ft \in EmbeddedStructs(heap[a].t) : \A k \in PrimitiveLeaves(ft.Type) :
                /\ FirstPath(heap[a].t, toSnakeCase(k.Name)) = <<ft.Name, k.Name>>
                   => AtParentLevel(m, a, last.objt, ft, k)
                /\ FirstPath(heap[a].t, toSnakeCase(ft.Name)) = <<ft.Name>>
                   => ThroughNestedObject(m, a, last.objt, ft, k)
          /\ \A ft \in NamedStructs(heap[a].t) :
                /\ NoPathThrough(m, ft)
                /\ \A k \in PrimitiveLeaves(ft.Type) :
                      FirstPath(heap[a].t, toSnakeCase(ft.Name)) = <<ft.Name>>
                      => ThroughNestedObject(m, a, last.objt, ft, k)

\* Example embeds Nested and has the named field NamedNested: "toto" reads
\* Nested.Toto at the parent level, NamedNested.Toto is read through the
\* nested object only.
C8_Witness ==
    /\ Registered1("ex") /\ ~last.call.copy /\ ~last.call.fields.given
    /\ wrapperTypeNameFor(StructT("Nested")) \notin DOMAIN last.before.Structs
    /\ CallGetFrom(heap, tp.Structs[TypeName(last.objt.celType)][kToto], last.objt)
          = Got(AnyOf(StringT, Str("toto")))
    /\ ThroughNestedObject(tp.Structs[TypeName(last.objt.celType)], "ex", last.objt,
                           SF(nNamedNested, StructT("Nested"), FALSE), SF(nToto, StringT, FALSE))
    /\ NoPathThrough(tp.Structs[TypeName(last.objt.celType)],
                     SF(nNamedNested, StructT("Nested"), FALSE))

(***************************************************************************)
(* C9                                                                       *)
(***************************************************************************)
\* CEL's selection w.f: the descriptor of f in the set of w's type, its
\* accessor on w, and the adapter on what the accessor returns.
SelectField(h, a, p, w, f) ==
    IF ~IsRefVal(w) \/ w.w \notin {"Object", "dyn"} THEN [ok |-> FALSE]
    ELSE LET ft == FindStructFieldType(p, TypeName(TypeOfWrapper(w)), f)
         IN IF ~ft.ok THEN [ok |-> FALSE]
            ELSE IF CallGetFrom(h, ft.v, w).err # <<>> THEN [ok |-> FALSE]
            ELSE [ok |-> TRUE, v |-> NativeToValue(a, CallGetFrom(h, ft.v, w).v)]

\* A dotted path, one layer after the other.
RECURSIVE ResolvePath(_, _, _, _, _)
ResolvePath(h, a, p, w, path) ==
    IF path = <<>> THEN [ok |-> TRUE, v |-> w]
    ELSE LET s == SelectField(h, a, p, w, Head(path))
         IN IF ~s.ok THEN s ELSE ResolvePath(h, a, p, s.v, Tail(path))

\* The CEL value of what Go's selection of path yields on object addr.
NativeLeaf(addr, path) ==
    [ok |-> TRUE,
     v |-> CelVal(GoSelect(heap, heap[addr].t, heap[addr].v, path).t.k,
                  GoSelect(heap, heap[addr].t, heap[addr].v, path).v)]

kEvent == toSnakeCase(nEvent)
kRuntime == toSnakeCase(nRuntime)
kContainerID == toSnakeCase(nContainerID)

\* C9: Enriched.Event is an interface field holding a *Exec; Exec embeds Trace,
\* which embeds Common, which has the field Runtime.  Once Enriched is
\* registered from a value whose Event holds the *Exec, the dotted paths
\* event.runtime.container_id, event.trace.common.runtime.container_id and
\* event.pid resolve layer by layer, on a wrapper of the value, to what Go's
\* selection yields on it now.
C9_PathThroughInterfaceResolves ==
    /\ (Registered1("en") /\ heap["en"].v.fields[nEvent] # NilIface)
       => kEvent \in DOMAIN tp.Structs[wrapperTypeName(PtrT(StructT("Enriched")))]
    /\ (/\ wrapperTypeName(PtrT(StructT("Enriched"))) \in DOMAIN tp.Structs
        /\ kEvent \in DOMAIN tp.Structs[wrapperTypeName(PtrT(StructT("Enriched")))]
        /\ heap["en"].v.fields[nEvent] # NilIface)
       => /\ ResolvePath(heap, ta, tp, WrapPtr(heap, "en", 0), <<kEvent, kRuntime, kContainerID>>)
                = NativeLeaf("en", <<nEvent, nTrace, nCommon, nRuntime, nContainerID>>)
          /\ ResolvePath(heap, ta, tp, WrapPtr(heap, "en", 0),
                         <<kEvent, toSnakeCase(nTrace), toSnakeCase(nCommon), kRuntime,
                           kContainerID>>)
                = NativeLeaf("en", <<nEvent, nTrace, nCommon, nRuntime, nContainerID>>)
          /\ ResolvePath(heap, ta, tp, WrapPtr(heap, "en", 0), <<kEvent, toSnakeCase(nPid)>>)
                = NativeLeaf("en", <<nEvent, nTrace, nPid>>)

\* Enriched was registered, the container id was changed afterwards, and the
\* path resolves to the new value.
C9_Witness ==
    /\ wrapperTypeName(PtrT(StructT("Enriched"))) \in DOMAIN tp.Structs
    /\ last.op = "Assign" /\ last.assign.addr = "exec"
    /\ ResolvePath(heap, ta, tp, WrapPtr(heap, "en", 0), <<kEvent, kRuntime, kContainerID>>)
          = [ok |-> TRUE, v |-> CelVal("string", Str("other"))]

(***************************************************************************)
(* C10                                                                      *)
(***************************************************************************)
\* Host runtime values: CEL's own values, the wrappers a caller can build of
\* the program's objects, the registered wrappers, and the dynamic wrappers
\* the nested accessors return.
HostValues ==
    {CelVal("string", Str("x")), CelVal("int", IntV(1)), CelVal("bool", BoolV(TRUE)),
     CelVal("Timestamp", TimeV(6, "nil")), CelVal("Null", "nil")}
    \cup UNION {WrappersOf(heap, a) : a \in StructObjects}
    \cup {ta[t].objt : t \in {u \in DOMAIN ta : ta[u].fn = "registered"}}
    \cup {DynObject(AnyOf(PtrT(heap[a].t), HeapPtr(a, <<>>)),
                    wrapperTypeNameFor(heap[a].t), ObjectType(wrapperTypeNameFor(heap[a].t)))
          : a \in StructObjects}

NativeValuesOf(T) ==
    IF T.k = "ptr"
    THEN {AnyOf(T, NilPtr)}
         \cup {AnyOf(T, HeapPtr(a, <<>>)) : a \in {b \in DOMAIN heap : heap[b].t = T.elem}}
    ELSE {AnyOf(T, ZeroOf(T))}
         \cup {AnyOf(T, heap[a].v) : a \in {b \in DOMAIN heap : heap[b].t = T}}

\* C11: after RegisterObject(ta, tp, w, ...) returned, NativeToValue of every
\* value whose runtime type is the type of w's raw value is w itself, the
\* instance that was registered.
C11_RegisteredWrapperReturned ==
    (last.op = "RegisterObject" /\ last.panic = <<>>)
    => \A v \in NativeValuesOf(last.objt.T) : NativeToValue(ta, v) = last.objt

\* Example was registered through a pointer to ex; the adapter answers the
\* pointer to another Example with the registered instance.
C11_Witness ==
    /\ Registered1("ex") /\ ~last.call.copy
    /\ AnyOf(PtrT(StructT("Example")), HeapPtr("parent", <<>>)) \in NativeValuesOf(last.objt.T)
    /\ NativeToValue(ta, AnyOf(PtrT(StructT("Example")), HeapPtr("parent", <<>>))) = last.objt
    /\ last.objt.id = nops

(***************************************************************************)
(* C12                                                                      *)
(***************************************************************************)
\* C12 as stated: for every native value v of a registered raw type,
\* NativeToValue(v) is an Object wrapper that holds v, and converting it back
\* to the native type yields v.
C12_AdapterWrapsGivenValue ==
    (last.op = "RegisterObject" /\ last.panic = <<>>)
    => \A v \in NativeValuesOf(last.objt.T) :
          /\ NativeToValue(ta, v).w = "Object"
          /\ NativeToValue(ta, v).Raw = v.v
          /\ ConvertToNative(NativeToValue(ta, v), v.t) = Got(v)

\* C12, amended: for every native value v of a registered raw type,
\* NativeToValue(v) is an Object wrapper of that type that holds the value the
\* registered wrapper was made of: converting it back to the native type
\* yields that value, which is v only when v is the registered value.
C12_AdapterReturnsRegisteredValue ==
    (last.op = "RegisterObject" /\ last.panic = <<>>)
    => \A v \in NativeValuesOf(last.objt.T) :
          /\ NativeToValue(ta, v).w = "Object"
          /\ NativeToValue(ta, v).T = v.t
          /\ NativeToValue(ta, v).Raw = last.objt.Raw
          /\ ConvertToNative(NativeToValue(ta, v), v.t) = Got(AnyOf(v.t, last.objt.Raw))

\* Example was registered through a pointer to ex; the wrapper the adapter
\* gives for the pointer to parent holds the pointer to ex.
C12_Witness ==
    /\ Registered1("ex") /\ ~last.call.copy
    /\ NativeToValue(ta, AnyOf(PtrT(StructT("Example")), HeapPtr("parent", <<>>))).Raw
          = HeapPtr("ex", <<>>)
    /\ ConvertToNative(NativeToValue(ta, AnyOf(PtrT(StructT("Example")), HeapPtr("parent", <<>>))),
                       PtrT(StructT("Example")))
          = Got(AnyOf(PtrT(StructT("Example")), HeapPtr("ex", <<>>)))

(***************************************************************************)
(* C17                                                                      *)
(***************************************************************************)
\* The struct types the exported struct-valued and pointer-to-struct fields of
\* struct type t lead to.
FieldTargets(t) ==
    {ElemIfPtr(StructFields(t)[i].Type) : i \in
        {j \in 1..NumField(t) : /\ IsExported(StructFields(t)[j])
                                /\ IsStructType(ElemIfPtr(StructFields(t)[j].Type))}}

\* The struct types the interface fields of object a hold now.
HeldTargets(a) ==
    {StripPtr(heap[a].v.fields[StructFields(heap[a].t)[i].Name].t) : i \in
        {j \in 1..NumField(heap[a].t) :
            /\ IsExported(StructFields(heap[a].t)[j])
            /\ StructFields(heap[a].t)[j].Type.k = "interface"
            /\ heap[a].v.fields[StructFields(heap[a].t)[j].Name] # NilIface
            /\ IsStructType(StripPtr(heap[a].v.fields[StructFields(heap[a].t)[j].Name].t))}}

\* The closure of a set of struct types under FieldTargets.
RECURSIVE ReachClosure(_)
ReachClosure(S) ==
    IF UNION {FieldTargets(t) : t \in S} \subseteq S THEN S
    ELSE ReachClosure(S \cup UNION {FieldTargets(t) : t \in S})

\* The struct types reachable from object a through chains of such fields.
ReachableFrom(a) == ReachClosure(FieldTargets(heap[a].t) \cup HeldTargets(a))

\* C17: after RegisterObject(w) returned, every struct type reachable from the
\* type of w's raw value through chains of exported struct-valued,
\* pointer-to-struct or interface-held struct fields has a type handle and a
\* descriptor set in the provider, whichever pointer fields are nil.
C17_ReachableTypesRegistered ==
    (last.op = "RegisterObject" /\ last.panic = <<>>)
    => \A t \in ReachableFrom(last.call.addr) :
          /\ FindStructType(tp, wrapperTypeNameFor(t)).ok
          /\ FindStructFieldNames(tp, wrapperTypeNameFor(t)).ok

(***************************************************************************)
(* C13: ConvertToNative on either wrapper kind returns the held native     *)
(* value, unchanged and without error, if and only if the requested native *)
(* type is exactly the type of the held value; for every other requested   *)
(* type it returns no value and a type-conversion error naming the         *)
(* wrapper's type and the requested type.                                   *)
(***************************************************************************)
\* The message names both types: its two %s.
NamesBothTypes(err, w, t) ==
    /\ Len(err) = 5
    /\ err[2] = TypeName(TypeOfWrapper(w))
    /\ err[4] = TypeString(t)

C13_ConvertToNativeExact ==
    last.op = "ConvertToNative" =>
        LET w == last.args[1]
            t == last.args[2]
            r == last.result
        IN  /\ (r.err = <<>>) <=> (RawOf(w) # NilAny /\ RawOf(w).t = t)
            /\ r.err = <<>> => r.v = RawOf(w)
            /\ r.err # <<>> => r.v = NilAny /\ NamesBothTypes(r.err, w, t)

\* An accessor's wrapper of a *Nested asked for a Nested's other pointer depth
\* or another type fails; a static wrapper asked for its own type succeeds.
C13_Witness ==
    /\ last.op = "ConvertToNative"
    /\ last.args[1].w = "dyn"
    /\ last.args[2] = PtrT(StructT("Example"))
    /\ last.args[1].Raw.t = PtrT(StructT("Nested"))
    /\ last.result.err # <<>>

(***************************************************************************)
(* C14: ConvertToType on any wrapper w returns w itself whenever the       *)
(* requested type is w's own declared type, in particular                  *)
(* w.ConvertToType(w.Type()) is w; for any other type it returns a         *)
(* type-conversion error value naming both types.                          *)
(***************************************************************************)
C14_ConvertToTypeReturnsSelf ==
    last.op = "ConvertToType" =>
        LET w == last.args[1]
            typeValue == last.args[2]
            r == last.result
        IN  IF typeValue.ty = TypeOfWrapper(w) THEN r = w
            ELSE /\ r.w = "err"
                 /\ r.msg[2] = TypeName(TypeOfWrapper(w))
                 /\ r.msg[4] = TypeName(typeValue.ty)

(***************************************************************************)
(* C15: Equal(a, b) is true iff a and b are the same wrapper kind (the     *)
(* same Object[T] instantiation, or both dynamic wrappers) and their held  *)
(* native values are deeply equal; a comparison of a static with a dynamic *)
(* wrapper, or with a value that is no wrapper, is false and never an      *)
(* error; the relation is symmetric.                                        *)
(***************************************************************************)
\* a and b are wrappers of the same kind.
SameWrapperKind(a, b) ==
    \/ a.w = "dyn" /\ b.w = "dyn"
    \/ a.w = "Object" /\ b.w = "Object" /\ a.T = b.T

C15_EqualSameKindDeepEqual ==
    last.op = "Equal" =>
        LET a == last.args[1]
            b == last.args[2]
            r == last.result
        IN  /\ r.w = "cel" /\ r.ty = "bool"
            /\ r.val = BoolV(SameWrapperKind(a, b) /\ DeepEqual(heap, RawOf(a), RawOf(b)))
            /\ ~SameWrapperKind(a, b) => r.val = BoolV(FALSE)
            /\ b.w \in {"Object", "dyn"} => Equal(heap, b, a) = r

\* Two accessor-made wrappers of different pointers to equal structs are equal.
C15_Witness ==
    /\ last.op = "Equal"
    /\ last.args[1].w = "dyn" /\ last.args[2].w = "dyn"
    /\ last.args[1].Raw # last.args[2].Raw
    /\ last.result = CelVal("bool", BoolV(TRUE))

(***************************************************************************)
(* C16: any two wrappers over the same native struct type report the same  *)
(* type handle (the same type name) from Type(): a static wrapper made by  *)
(* NewObject over the struct by value or by pointer, a dynamic wrapper     *)
(* made by a nested-field accessor, and the name under which the           *)
(* nested-type walk registers that struct type all agree.                   *)
(***************************************************************************)
\* The struct type wrapper w is over, pointers aside.
StructOf(w) == StripPtr(TypeOfRaw(w))

\* w is a wrapper declared over a struct or a pointer to one.
OverStruct(w) ==
    /\ w.w = "Object" => w.T.k # "interface"
    /\ w.w = "dyn" => w.Raw # NilAny
    /\ IsStructType(StructOf(w))

C16_SameStructSameHandle ==
    (last.op = "Type" /\ OverStruct(last.args[1])) =>
        /\ TypeName(last.result.ty) = wrapperTypeNameFor(StructOf(last.args[1]))
        /\ \A w2 \in ReadWrappers :
              (OverStruct(w2) /\ StructOf(w2) = StructOf(last.args[1]))
                  => TypeName(TypeOfWrapper(w2)) = TypeName(last.result.ty)

DescendsOnce(run) ==
    \A i, j \in DOMAIN run.descents : run.descents[i] = run.descents[j] => i = j

\* The call of registerNestedTypes has returned (or a build inside it panicked).
WalkReturned ==
    /\ last.op = "registerNestedTypes"
    /\ last.panic # <<>> \/ (last.call = <<>> /\ last.frames = <<>>)

C19_WalkTerminatesOncePerType ==
    /\ [](last.op = "registerNestedTypes" => DescendsOnce(last))
    /\ (last.op = "registerNestedTypes") ~> WalkReturned

\* The walk of a value whose Parent is the value itself has returned, having
\* descended into Example and Nested, and has registered what the recursive
\* reading of the function registers.
C19_Witness ==
    /\ WalkReturned
    /\ last.of.v = HeapPtr("loop", <<>>)
    /\ last.descents = <<StructT("Example"), StructT("Nested")>>
    /\ tp = registerNestedTypes(heap, NewTypeProvider, last.of, {}).tp

(***************************************************************************)
(* C20: descriptor building (NewFields / newFieldsFromRaw) terminates for  *)
(* every input value, including a struct that anonymously embeds a pointer *)
(* to its own type with self-referential data: struct types already        *)
(* visited during the build pass are not descended into again.             *)
(***************************************************************************)
C20_BuildDescendsOnce == last.op = "newFieldsFromRaw" => DescendsOnce(last)

(***************************************************************************)
(* C23: toSnakeCase(s) is s lower-cased with a single '_' inserted before  *)
(* an uppercase letter at index i > 0 exactly when its predecessor is not  *)
(* '_' and either the predecessor is lowercase or the next character is    *)
(* lowercase; the output contains no uppercase letter, and applying the    *)
(* function to its own output changes nothing.                              *)
(***************************************************************************)
\* The characters of a string, each as its bytes.
RECURSIVE CharactersFrom(_, _)
CharactersFrom(s, i) ==
    IF i > Len(s) THEN <<>>
    ELSE (IF InsideRune(s, i) THEN <<>> ELSE <<RuneAt(s, i)>>) \o CharactersFrom(s, i + 1)
Characters(s) == CharactersFrom(s, 1)

\* Letter case of a character.
IsLowerLetter(c) == c = LowerE \/ (Len(c) = 1 /\ IsLower(c[1]))
IsUpperLetter(c) == c = UpperE \/ (Len(c) = 1 /\ IsUpper(c[1]))

\* The rule of the claim for character i of cs.
SnakeRuleAt(cs, i) ==
    IF IsUpperLetter(cs[i])
    THEN (IF i > 1 /\ cs[i-1] # <<"_">>
             /\ (IsLowerLetter(cs[i-1]) \/ (i < Len(cs) /\ IsLowerLetter(cs[i+1])))
          THEN <<"_">> ELSE <<>>) \o ToLowerRune(cs[i])
    ELSE cs[i]

RECURSIVE SnakeRuleFrom(_, _)
SnakeRuleFrom(cs, i) ==
    IF i > Len(cs) THEN <<>> ELSE SnakeRuleAt(cs, i) \o SnakeRuleFrom(cs, i + 1)

C23_SnakeCaseRule ==
    last.op = "toSnakeCase" =>
        /\ last.result = SnakeRuleFrom(Characters(last.arg), 1)
        /\ \A j \in DOMAIN Characters(last.result) : ~IsUpperLetter(Characters(last.result)[j])
        /\ toSnakeCase(last.result) = last.result

(***************************************************************************)
(* C22: the declared kind of a leaf descriptor follows the classification  *)
(* table for the field's static type with its pointers removed: string is  *)
(* string, every signed integer width is int, every unsigned integer       *)
(* width is uint, float32 and float64 are double, bool is bool, []byte is  *)
(* bytes, []string is list of string, time.Time is timestamp, and anything *)
(* else is of object kind.                                                  *)
(***************************************************************************)
SignedKinds   == {"int", "int8", "int16", "int32", "int64"}
UnsignedKinds == {"uint", "uint8", "uint16", "uint32", "uint64"}

\* The kind the table gives a type without pointers.
TableKind(t) ==
    CASE t = goTimeType -> "timestamp"
      [] t.k = "string" -> "string"
      [] t.k \in SignedKinds -> "int"
      [] t.k \in UnsignedKinds -> "uint"
      [] t.k \in {"float32", "float64"} -> "double"
      [] t.k = "bool" -> "bool"
      [] t.k = "slice" /\ t.elem = Uint8T -> "bytes"
      [] t.k = "slice" /\ t.elem = StringT -> "list"
      [] OTHER -> "object"

C22_DeclaredKindFollowsTable ==
    last.op = "celTypeForField" =>
        /\ last.result.kind = TableKind(StripPtr(last.arg.Type))
        /\ last.result.kind = "list" => last.result.elem = CelStringType

(***************************************************************************)
(* C26                                                                      *)
(***************************************************************************)
\* What a target wraps: [ok, t, v]; nil, and what is no wrapper, wrap nothing.
Wrapped(target) ==
    IF target = NilAny \/ "w" \notin DOMAIN target \/ target.w \notin {"Object", "dyn"}
    THEN [ok |-> FALSE]
    ELSE IF target.w = "Object" THEN [ok |-> TRUE, t |-> target.T, v |-> target.Raw]
    ELSE IF target.Raw = NilAny THEN [ok |-> FALSE]
    ELSE [ok |-> TRUE, t |-> target.Raw.t, v |-> target.Raw.v]

\* Whether Go's selection v.p1.p2... denotes a field: every name is a field
\* of the struct reached so far, declared or promoted, and no pointer or
\* interface on the way is nil.
RECURSIVE Selects(_, _, _, _)
SelectsIn(h, t, v, parts, q) ==
    /\ q # <<>>
    /\ IF Len(q) = 1
       THEN Selects(h, StructFields(t)[FieldIndex(t, Head(parts))].Type,
                    v.fields[Head(parts)], Tail(parts))
       ELSE Selects(h, t, v, q \o Tail(parts))
Selects(h, t, v, parts) ==
    IF parts = <<>> THEN TRUE
    ELSE CASE t.k = "ptr" -> v # NilPtr /\ Selects(h, t.elem, Pointee(h, v), parts)
           [] t.k = "interface" -> v # NilIface /\ Selects(h, v.t, v.v, parts)
           [] t.k = "struct" -> SelectsIn(h, t, v, parts, FieldPaths[t][Head(parts)])
           [] OTHER -> FALSE

\* The recorded path of descriptor d can be resolved on target.
Resolves(h, d, target) ==
    Wrapped(target).ok /\ Selects(h, Wrapped(target).t, Wrapped(target).v, d.parts)

\* C26: on a target on which the recorded path of an auto-derived descriptor
\* cannot be resolved (nil, no wrapper, a wrapper of nil, a wrapper of another
\* struct shape, a nil pointer or interface on the way), GetFrom returns no
\* value and the error "field <path> not found", IsSet returns false, and
\* neither of them panics.
C26_UnresolvablePathNotFound ==
    (last.op \in {"IsSet", "GetFrom"} /\ ~Resolves(heap, last.d, last.target)) =>
        /\ ~last.panic
        /\ last.op = "IsSet" => last.result = FALSE
        /\ last.op = "GetFrom" =>
              /\ last.result.v = NilAny
              /\ Len(last.result.err) = 3
              /\ last.result.err[2] = last.d.fullPath

(***************************************************************************)
(* C21                                                                      *)
(***************************************************************************)
\* The call recorded in `last` was made on a wrapper of a value of the struct
\* type whose descriptor set the descriptor belongs to.
OnOwnType ==
    /\ last.op \in {"IsSet", "GetFrom"}
    /\ Wrapped(last.target).ok
    /\ StripPtr(Wrapped(last.target).t).k = "struct"
    /\ last.name \in {wrapperTypeNameFor(Wrapped(last.target).t),
                      typeNameOf(Wrapped(last.target).t)}

\* The field the descriptor in `last` reads, by Go's own selection: [ok, t, v].
OwnField == GoSelect(heap, Wrapped(last.target).t, Wrapped(last.target).v, last.d.parts)

NilableKinds == {"ptr", "slice", "map", "interface", "chan"}
AlwaysPresentKinds ==
    {"string", "bool", "int", "int8", "int16", "int32", "int64", "uint", "uint8",
     "uint16", "uint32", "uint64", "float32", "float64", "array"}
IsNilValue(v) == v \in {NilPtr, NilIface, NilSlice}

\* C21: on a wrapped value of the type, the presence predicate of an
\* auto-derived descriptor of a field of pointer, slice, map, interface or
\* channel kind answers whether the field is non-nil now, whatever the field
\* held when the descriptors were built; that of a field of numeric, boolean
\* or string kind answers true.  (Fields of type time.Time and *time.Time have
\* their own rule.)
C21_PresenceFollowsKind ==
    (OnOwnType /\ last.op = "IsSet" /\ OwnField.ok /\ StripPtr(OwnField.t) # goTimeType) =>
        /\ OwnField.t.k \in NilableKinds => (last.result <=> ~IsNilValue(OwnField.v))
        /\ OwnField.t.k \in AlwaysPresentKinds => last.result = TRUE

(***************************************************************************)
(* C25                                                                      *)
(***************************************************************************)
\* The field the descriptor in `last` reads is a nested struct: a struct or a
\* pointer to one, time.Time apart.
OwnFieldIsNestedStruct ==
    /\ OwnField.ok
    /\ OwnField.t.k \in {"struct", "ptr"}
    /\ StripPtr(OwnField.t).k = "struct"
    /\ StripPtr(OwnField.t) # goTimeType

\* The pointer the wrapper of that field is to hold: the pointer field's own
\* value; for a struct field its address inside the wrapped value when the
\* target wraps a pointer, and a pointer to a fresh copy otherwise.
OwnFieldPointer ==
    IF OwnField.t.k = "ptr" THEN OwnField.v
    ELSE IF Wrapped(last.target).t.k = "ptr"
    THEN HeapPtr(Wrapped(last.target).v.base, Wrapped(last.target).v.path \o last.d.parts)
    ELSE FreshPtr(OwnField.t, OwnField.v)

IsWrapper(x) == "w" \in DOMAIN x /\ x.w \in {"Object", "dyn"}

\* C25: the accessor of every nested-struct field returns, on a wrapped value
\* of the type, a wrapper that holds a pointer to the struct (the field's
\* address, or a pointer to a fresh copy when the field has no address), never
\* the bare native value, whatever the field held when the descriptors were
\* built.
C25_NestedAccessorReturnsWrapper ==
    (OnOwnType /\ last.op = "GetFrom" /\ OwnFieldIsNestedStruct) =>
        /\ last.result.err = <<>>
        /\ IsWrapper(last.result.v)
        /\ last.result.v.Raw = AnyOf(PtrT(StripPtr(OwnField.t)), OwnFieldPointer)

(***************************************************************************)
(* C29                                                                      *)
(***************************************************************************)
IsTimestamp(x) == "w" \in DOMAIN x /\ x.w = "cel" /\ x.ty = "Timestamp"

\* A Go value of static type t as an `any`.
AsAny(t, v) ==
    IF t.k = "interface" THEN (IF v = NilIface THEN NilAny ELSE AnyOf(v.t, v.v))
    ELSE AnyOf(t, v)

\* C29: on a wrapped value of the type, the accessor of a field declared
\* time.Time or *time.Time returns a CEL timestamp for every value of the
\* field, with the field's instant (the pointee's for a pointer); the accessor
\* of any other leaf field returns the field's value unchanged.
C29_TimestampAccessor ==
    (OnOwnType /\ last.op = "GetFrom" /\ last.d.fn = "leaf" /\ OwnField.ok) =>
        /\ last.result.err = <<>>
        /\ IF StripPtr(OwnField.t) = goTimeType
           THEN /\ IsTimestamp(last.result.v)
                /\ OwnField.t = goTimeType => last.result.v.val = OwnField.v
                /\ (OwnField.t.k = "ptr" /\ OwnField.v # NilPtr)
                      => last.result.v.val = Pointee(heap, OwnField.v)
           ELSE last.result.v = AsAny(OwnField.t, OwnField.v)


(***************************************************************************)
(* C24                                                                      *)
(***************************************************************************)
\* The names of the leaf fields struct type t declares itself: [name, field].
OwnLeaves(t) ==
    {[name |-> toSnakeCase(StructFields(t)[i].Name), field |-> StructFields(t)[i].Name] :
        i \in {k \in 1..NumField(t) : DirectLeaf(t, k)}}

\* The names of the leaves the anonymous embedded structs of t promote.
PromotedNames(t) == {l.name : l \in {x \in ExposedLeaves(t) : Len(x.path) > 1}}

\* The own leaf fields of t that shadow a promoted leaf.
ShadowingLeaves(t) == {l \in OwnLeaves(t) : l.name \in PromotedNames(t)}

\* What the accessor of promoted descriptor d gives on a wrapper of object a
\* is what Go's selection along d.parts gives.
PromotedReadsNative(h, a, d) ==
    LET sel == GoSelect(h, h[a].t, h[a].v, d.parts)
        got == CallGetFrom(h, d, WrapPtr(h, a, 10))
    IN sel.ok =>
          /\ got.err = <<>>
          /\ (StripPtr(sel.t) # goTimeType => got.v = AsAny(sel.t, sel.v))

\* C24: when a struct declares a leaf field whose name is also that of a leaf
\* promoted from an anonymous embedded struct, NewFields does not fail and the
\* descriptor under that name reads the struct's own field, whether the
\* embedded field is declared before or after it; and the accessor of every
\* promoted descriptor returns what native selection parent.Field returns.
C24_OwnFieldShadowsPromoted ==
    last.op = "NewFields" =>
        /\ (ShadowingLeaves(heap[last.addr].t) # {} =>
               /\ last.result.ok
               /\ \A l \in ShadowingLeaves(heap[last.addr].t) :
                     /\ l.name \in DOMAIN last.result.m
                     /\ last.result.m[l.name].parts = <<l.field>>)
        /\ (last.result.ok =>
               \A n \in DOMAIN last.result.m :
                   (last.result.m[n].fn = "leaf" /\ Len(last.result.m[n].parts) > 1)
                       => PromotedReadsNative(heap, last.addr, last.result.m[n]))


(***************************************************************************)
(* C28                                                                      *)
(***************************************************************************)
\* Whether the field of object a that Go's selection along path reaches
\* holds a callable value: a func, or an interface value holding a func.
CallableAt(h, a, path) ==
    LET sel == GoSelect(h, h[a].t, h[a].v, path)
    IN /\ sel.ok
       /\ \/ sel.t.k = "func"
          \/ (sel.t.k = "interface" /\ sel.v # NilIface /\ sel.v.t.k = "func")

\* C28: NewFields creates no descriptor for a field whose value is callable,
\* be the field declared by the struct, promoted from an embedded struct, or
\* of interface type and holding a function.
C28_NoDescriptorForCallable ==
    (last.op = "NewFields" /\ last.result.ok) =>
        \A n \in DOMAIN last.result.m :
            ~CallableAt(heap, last.addr, last.result.m[n].parts)


(***************************************************************************)
(* C27                                                                      *)
(***************************************************************************)
\* The shape of a build: [ok, the declared type under every field name].
ShapeOf(r) == [ok |-> r.ok, types |-> [n \in DOMAIN r.m |-> r.m[n].Type]]

\* C27: NewFields applied to any two values of the same struct type yields the
\* same field names with the same declared types, whichever pointer or
\* interface fields are nil and whatever the fields hold.
C27_DescriptorsDependOnTypeOnly ==
    last.op = "NewFields" =>
        \A b \in SameType(last.addr) :
            ShapeOf(NewFields(heap, WrapPtr(heap, b, 10))) = ShapeOf(last.result)


(***************************************************************************)
(* C30                                                                      *)
(***************************************************************************)
\* The calls of a setup in reverse order.
Reversed(calls) == [i \in 1..Len(calls) |-> calls[Len(calls) + 1 - i]]

\* The names a RegisterObject call of a pointer to object a registers.
OwnNames(a) == {wrapperTypeName(PtrT(heap[a].t)), typeNameOf(heap[a].t)}

\* The set RegisterObject call c registers for its own type.
OwnSet(c) == Overlay(NewFields(heap, WrapPtr(heap, c.addr, 10)).m, c.fields)

\* Whether calls register parent and then nested, or nested and then parent,
\* parent having a field of the struct type of nested.
ParentAndNested(calls, parent, nested) ==
    /\ Len(calls) = 2
    /\ {calls[1].addr, calls[2].addr} = {parent, nested}
    /\ \E i \in 1..NumField(heap[parent].t) :
          ElemIfPtr(StructFields(heap[parent].t)[i].Type) = heap[nested].t

\* C30: when RegisterObject is called for a wrapper of Nested, with its own
\* descriptors, and for a wrapper of Example, which has a Nested field, the
\* provider holds for Nested, under its wrapper type name and under its Go
\* type name, the set of Nested's own call, and it holds the same had the two
\* calls been made in the other order.
C30_NestedSetIndependentOfOrder ==
    (last.op = "populated" /\ ParentAndNested(last.calls, "ex", "nested")) =>
        \A n \in OwnNames("nested") : \A c \in {x \in Range(last.calls) : x.addr = "nested"} :
            /\ n \in DOMAIN tp.Structs
            /\ tp.Structs[n] = OwnSet(c)
            /\ tp.StructFieldTypes[n] = OwnSet(c)
            /\ Populated(heap, Reversed(last.calls)).tp.Structs[n] = tp.Structs[n]

\* Nested was registered with its hand-written descriptor before Example was
\* walked, and the hand-written descriptor is still there under both names.
C30_Witness ==
    /\ last.op = "populated"
    /\ ParentAndNested(last.calls, "ex", "nested")
    /\ last.calls[1].addr = "nested"
    /\ last.panic = <<>>
    /\ \A n \in OwnNames("nested") : tp.Structs[n][kToto].fn = "manual"

====
